---- MODULE Spec2Model ----
(***************************************************************************)
(* Socratic-AI (AeroMind): the retrieval-augmented query pipelines         *)
(* (RAGPipeline, MultimodalRAGPipeline), the vector store manager they     *)
(* share, and the chunker of the document processors.                      *)
(*                                                                         *)
(* Spec is a pipeline answering queries, SpecChunk a processor working     *)
(* through a directory, SpecStore the manager called on its own, and       *)
(* SpecLife the queries with the manager's calls between them.             *)
(*                                                                         *)
(* Python strings are TLA+ strings, handled as character sequences (Len,   *)
(* SubSeq, \o).  The two code points of the warning sign that opens the    *)
(* fixed answers are written "!!": the module text is ASCII.               *)
(***************************************************************************)
EXTENDS Integers, Sequences, FiniteSets, TLC

(***************************************************************************)
(* Bounds of the model.                                                    *)
(***************************************************************************)
MaxDocs == 2

(***************************************************************************)
(* Program constants.                                                      *)
(***************************************************************************)
TopK == 5
MinAnswerLen == 50
PreviewLen == 300
MaxAnalysed == 3

(***************************************************************************)
(* Python string primitives.                                               *)
(***************************************************************************)
\* `sub in s`
Contains(s, sub) ==
    \E i \in 1..(Len(s) - Len(sub) + 1) : SubSeq(s, i, i + Len(sub) - 1) = sub

UpperToLower ==
    [A |-> "a", B |-> "b", C |-> "c", D |-> "d", E |-> "e", F |-> "f", G |-> "g",
     H |-> "h", I |-> "i", J |-> "j", K |-> "k", L |-> "l", M |-> "m", N |-> "n",
     O |-> "o", P |-> "p", Q |-> "q", R |-> "r", S |-> "s", T |-> "t", U |-> "u",
     V |-> "v", W |-> "w", X |-> "x", Y |-> "y", Z |-> "z"]

LowerToUpper ==
    [a |-> "A", b |-> "B", c |-> "C", d |-> "D", e |-> "E", f |-> "F", g |-> "G",
     h |-> "H", i |-> "I", j |-> "J", k |-> "K", l |-> "L", m |-> "M", n |-> "N",
     o |-> "O", p |-> "P", q |-> "Q", r |-> "R", s |-> "S", t |-> "T", u |-> "U",
     v |-> "V", w |-> "W", x |-> "X", y |-> "Y", z |-> "Z"]

RECURSIVE MapChars(_, _)
MapChars(s, table) ==
    IF s = "" THEN ""
    ELSE IF Len(s) = 1 THEN (IF s \in DOMAIN table THEN table[s] ELSE s)
    ELSE LET half == Len(s) \div 2
         IN  MapChars(SubSeq(s, 1, half), table)
                 \o MapChars(SubSeq(s, half + 1, Len(s)), table)

\* str.lower() and str.upper() on ASCII text
Lower(s) == MapChars(s, UpperToLower)
Upper(s) == MapChars(s, LowerToUpper)

\* s[:n]
Prefix(s, n) == SubSeq(s, 1, IF Len(s) < n THEN Len(s) ELSE n)

\* dict.get(key, default) on a metadata dict (a function on the keys it holds)
HasKey(d, key) == key \in DOMAIN d

RECURSIVE Repeat(_, _)
Repeat(s, n) == IF n = 0 THEN "" ELSE s \o Repeat(s, n - 1)

Min2(a, b) == IF a < b THEN a ELSE b

(***************************************************************************)
(* Data the model draws from.  A Document is what the vector index returns *)
(* on search: page_content and the metadata dict of the chunk.             *)
(***************************************************************************)
LongText == Repeat("Check the hydraulic line for leaks. ", 9)

DocApu ==
    [page_content |-> "The APU supplies ground electrical power.",
     metadata |-> [source |-> "manual.pdf", page |-> 12, has_diagram |-> FALSE]]
DocFigure ==
    [page_content |-> "See FIGURE 3 for the fuel system layout.",
     metadata |-> [source |-> "manual.pdf", page |-> 7, has_diagram |-> TRUE]]
DocBare ==
    [page_content |-> "WARNING: hot surface.",
     metadata |-> [chunk_index |-> 0]]
DocLong ==
    [page_content |-> LongText,
     metadata |-> [source |-> "manual.pdf", page |-> 12, has_diagram |-> FALSE]]

DocPool == {DocApu, DocFigure, DocBare, DocLong}

\* self.vectorstore = None
NoIndex == [unset |-> TRUE]
FullIndex == [docs |-> DocPool]
SmallIndex == [docs |-> {DocApu}]

\* what the vectorstore directory holds
DiskPool ==
    {[state |-> "missing", index |-> NoIndex],
     [state |-> "unreadable", index |-> NoIndex],
     [state |-> "index", index |-> FullIndex],
     [state |-> "index", index |-> SmallIndex]}

ImgFuel1 ==
    [filename |-> "manual_p7_img0.png", path |-> "data/processed/images/manual_p7_img0.png",
     page |-> 7, source |-> "manual.pdf", width |-> 640, height |-> 480]
ImgFuel2 ==
    [filename |-> "manual_p7_img1.png", path |-> "data/processed/images/manual_p7_img1.png",
     page |-> 7, source |-> "manual.pdf", width |-> 640, height |-> 480]
ImgApu ==
    [filename |-> "manual_p12_img0.png", path |-> "data/processed/images/manual_p12_img0.png",
     page |-> 12, source |-> "manual.pdf", width |-> 320, height |-> 200]
ImgApu2 ==
    [filename |-> "manual_p12_img1.png", path |-> "data/processed/images/manual_p12_img1.png",
     page |-> 12, source |-> "manual.pdf", width |-> 320, height |-> 200]
ImgOther ==
    [filename |-> "b737_p7_img0.png", path |-> "data/processed/images/b737_p7_img0.png",
     page |-> 7, source |-> "b737.pdf", width |-> 320, height |-> 200]

\* data/processed/images_catalog.json is absent ({}), or a list of image dicts
\* the catalog with the image files that exist on disk
ImageStores ==
    {[catalog |-> <<>>, files |-> {}],
     [catalog |-> <<ImgFuel1, ImgApu, ImgOther, ImgFuel2>>,
      files |-> {ImgFuel1.path, ImgFuel2.path, ImgApu.path, ImgOther.path}],
     [catalog |-> <<ImgFuel1, ImgApu, ImgOther, ImgFuel2, ImgApu2>>,
      files |-> {ImgFuel2.path, ImgApu.path, ImgApu2.path}]}

Questions == {"What is the APU?", "Where is the fuel DIAGRAM?"}

\* what the text model may answer
Answers ==
    {"Short.",
     "See Page: 12.",
     "The APU supplies ground electrical power. [Source: manual.pdf, Page: 12]",
     "The APU supplies ground electrical power to the aircraft systems.",
     "I CANNOT FIND this information in the available manuals. [Source: manual.pdf]",
     "Source: manual.pdf. The APU gives ground power now",
     "Source: manual.pdf. The APU gives ground power no",
     "It is unclear."}

\* str(e) of what the model service may raise
LLMErrors == {"Read timed out", "Connection refused"}

VisionResponses == {"The diagram shows the fuel pump and two valves."}

\* str(e) of what _analyze_image_with_vision_model may catch
VisionErrors == {"Read timed out"}
FileErrors == {"Permission denied"}

Pipelines == {"plain", "multimodal"}

(***************************************************************************)
(* State.                                                                  *)
(***************************************************************************)
VARIABLES
    vectorstore,      \* VectorStoreManager.vectorstore
    disk,             \* the persisted index in vectorstore_dir
    images_catalog,   \* MultimodalRAGPipeline.images_catalog
    files,            \* paths of the image files that exist
    pc,               \* position of the running query
    pipeline,         \* which pipeline's query is running
    question, return_sources, include_images,   \* arguments of query
    docs,             \* retrieved documents
    wants_diagrams, context, relevant_images, image_analyses, imgIdx,
    full_prompt, answer,
    result,           \* the dict query returned
    raised,           \* str(e) of the exception that left query ("" if none)
    llmCalls,         \* invocations of the text model in this query
    llmFault,         \* str(e) of what the text model raised in this query ("" if nothing)
    visionCalls,      \* invocations of the vision model in this query
    loadCalls,        \* calls of load_vectorstore in this query
    checked,          \* arguments of _check_answer_quality in this query
    call,             \* the VectorStoreManager call that has just returned
    parked,           \* the locals of the other query under way, while this one runs
    processor,        \* "text": DocumentProcessor, "images": DocumentProcessorWithImages
    pdfs,             \* the PDFs of the input directory, in glob order
    pdfIdx,           \* the PDF process_directory is at
    pages,            \* pages extracted from that PDF
    pageIdx,          \* the page create_chunks is at
    chunks,           \* chunks created from that PDF so far
    all_chunks,       \* process_directory's result so far
    all_images,       \* images collected for the catalog (image processor)
    stats,            \* process_directory's counters
    cpc               \* position of process_directory

vars == <<vectorstore, disk, images_catalog, files, pc, pipeline, question,
          return_sources, include_images, docs, wants_diagrams, context,
          relevant_images, image_analyses, imgIdx, full_prompt, answer, result,
          raised, llmCalls, llmFault, visionCalls, loadCalls, checked, call, parked,
          processor, pdfs, pdfIdx, pages, pageIdx, chunks, all_chunks,
          all_images, stats, cpc>>

chunkVars == <<processor, pdfs, pdfIdx, pages, pageIdx, chunks, all_chunks,
          all_images, stats, cpc>>

queryVars == <<vectorstore, disk, images_catalog, files, pc, pipeline, question,
               return_sources, include_images, docs, wants_diagrams, context,
               relevant_images, image_analyses, imgIdx, full_prompt, answer, result,
               raised, llmCalls, llmFault, visionCalls, loadCalls, checked, call,
               parked>>

NoResult == [none |-> TRUE]
NotChecked == [none |-> TRUE]
NoCall == [op |-> "none"]

\* the locals of a query that is not under way
IdleQuery ==
    [pc |-> "idle", pipeline |-> "plain", question |-> "", return_sources |-> TRUE,
     include_images |-> TRUE, docs |-> <<>>, wants_diagrams |-> FALSE, context |-> "",
     relevant_images |-> <<>>, image_analyses |-> <<>>, imgIdx |-> 1,
     full_prompt |-> "", answer |-> "", result |-> NoResult, raised |-> "",
     llmCalls |-> 0, llmFault |-> "", visionCalls |-> 0, loadCalls |-> 0,
     checked |-> NotChecked]

(***************************************************************************)
(* VectorStoreManager.                                                     *)
(***************************************************************************)
\* FAISS.load_local succeeds iff the directory holds a readable index
LoadSucceeds(d) == d.state = "index"

\* mutant: a load that fails leaves an index with nothing in it
LoadVectorstore_partial(vs, d) == IF LoadSucceeds(d) THEN d.index ELSE [docs |-> {}]

\* load_vectorstore: the value of self.vectorstore after the call
LoadVectorstore(vs, d) == IF LoadSucceeds(d) THEN d.index ELSE vs

\* similarity_search(question, k): at most k documents of the index, ranked
\* by the embedding service (any ranking), none twice
SimilaritySearch(index, k) ==
    {ds \in UNION {[1..n -> index.docs] : n \in 0..Min2(k, MaxDocs)} :
        \A i, j \in 1..Len(ds) : i # j => ds[i] # ds[j]}

\* the chunks create_vectorstore is given: what process_directory saved
ChunkOf(doc) == [text |-> doc.page_content, metadata |-> doc.metadata]
ChunkLists ==
    {<<>>,
     <<ChunkOf(DocApu)>>,
     <<ChunkOf(DocApu), ChunkOf(DocFigure), ChunkOf(DocBare), ChunkOf(DocLong)>>}

\* Document(page_content=chunk["text"], metadata=chunk["metadata"])
ToDocument(chunk) == [page_content |-> chunk.text, metadata |-> chunk.metadata]
ToDocuments(cs) == [i \in 1..Len(cs) |-> ToDocument(cs[i])]

\* FAISS.from_documents on some documents: the index that holds them
FromDocuments(documents) == [docs |-> {documents[i] : i \in 1..Len(documents)}]

\* FAISS.from_documents on no document: embeddings[0] of an empty list
EmptyBuildError == "list index out of range"
\* str(e) of what the embedding model may raise
EmbedErrors == {"out of memory"}
\* str(e) of what save_local may raise
SaveErrors == {"No space left on device"}

\* the directory after save_local wrote the index, and after a write that
\* broke off half way
Persisted(index) == [state |-> "index", index |-> index]
Unreadable == [state |-> "unreadable", index |-> NoIndex]

\* the k that search is called with
SearchSizes == {1, TopK}

(***************************************************************************)
(* Context assembly (both pipelines).                                      *)
(***************************************************************************)
\* f"{value}" of a metadata value: a filename, or a page number
Fmt(d, key, default) ==
    IF ~HasKey(d, key) THEN default
    ELSE IF key = "page" THEN ToString(d[key]) ELSE d[key]

\* mutant: the display preview of the chunk goes into the prompt context
ContextPart_preview(i, doc) ==
    "[Source " \o ToString(i) \o ": " \o Fmt(doc.metadata, "source", "Unknown")
        \o ", Page " \o Fmt(doc.metadata, "page", "N/A") \o "]\n"
        \o (IF Len(doc.page_content) > 300
            THEN SubSeq(doc.page_content, 1, 300) \o "..." ELSE doc.page_content)

ContextPart(i, doc) ==
    "[Source " \o ToString(i) \o ": " \o Fmt(doc.metadata, "source", "Unknown")
        \o ", Page " \o Fmt(doc.metadata, "page", "N/A") \o "]\n"
        \o doc.page_content

ContextDelimiter == "\n\n---\n\n"

RECURSIVE Join(_, _)
\* sep.join(parts)
Join(parts, sep) ==
    IF Len(parts) = 0 THEN ""
    ELSE IF Len(parts) = 1 THEN parts[1]
    ELSE parts[1] \o sep \o Join(Tail(parts), sep)

BuildContext(ds) ==
    Join([i \in 1..Len(ds) |-> ContextPart(i, ds[i])], ContextDelimiter)

(***************************************************************************)
(* Sources of the result (both pipelines).                                 *)
(***************************************************************************)
Preview(text) ==
    IF Len(text) > PreviewLen THEN Prefix(text, PreviewLen) \o "..." ELSE text

SourceEntry(doc, pl) ==
    LET base == [content |-> Preview(doc.page_content),
                 source  |-> Fmt(doc.metadata, "source", "Unknown"),
                 page    |-> Fmt(doc.metadata, "page", "N/A")]
    IN  IF pl = "plain"
        THEN [content |-> base.content, source |-> base.source,
              page |-> base.page, relevance_score |-> "None"]
        ELSE base

\* mutant: return_sources is not looked at
FormatSources_always(ds, rs, pl) == [i \in 1..Len(ds) |-> SourceEntry(ds[i], pl)]

FormatSources(ds, rs, pl) ==
    IF rs THEN [i \in 1..Len(ds) |-> SourceEntry(ds[i], pl)] ELSE <<>>

(***************************************************************************)
(* RAGPipeline._check_answer_quality.                                      *)
(***************************************************************************)
UncertaintyPhrases ==
    {"cannot find", "not available", "unclear", "insufficient information"}

MissingCitations(ans) == ~Contains(ans, "Page:") /\ ~Contains(ans, "Source:")

\* mutant: <= for <
TooBrief_inclusive(ans) == Len(ans) <= MinAnswerLen

TooBrief(ans) == Len(ans) < MinAnswerLen

NoSources(srcs) == Len(srcs) = 0

\* mutant: the answer is not lowered before the phrases are looked for
IsUncertain_cased(ans) == \E phrase \in UncertaintyPhrases : Contains(ans, phrase)

IsUncertain(ans) == \E phrase \in UncertaintyPhrases : Contains(Lower(ans), phrase)

QualityIssues(ans, srcs) ==
    (IF MissingCitations(ans) THEN <<"Missing citations">> ELSE <<>>)
        \o (IF TooBrief(ans) THEN <<"Answer too brief">> ELSE <<>>)
        \o (IF NoSources(srcs) THEN <<"No relevant sources found">> ELSE <<>>)

CheckConfidence(issues, uncertain) ==
    IF Len(issues) > 0 \/ uncertain THEN "low" ELSE "high"

CheckAnswerQuality(ans, srcs) ==
    LET quality_issues == QualityIssues(ans, srcs)
        is_uncertain == IsUncertain(ans)
    IN  [has_issues   |-> Len(quality_issues) > 0,
         issues       |-> quality_issues,
         is_uncertain |-> is_uncertain,
         confidence   |-> CheckConfidence(quality_issues, is_uncertain)]

(***************************************************************************)
(* MultimodalRAGPipeline: diagram detection, image association, analysis.  *)
(***************************************************************************)
DiagramKeywords ==
    {"diagram", "figure", "illustration", "picture", "image", "drawing",
     "schematic", "show me", "what does it look like", "visual", "chart",
     "graph", "layout", "location"}

\* question_lower = question.lower(), then any(keyword in question_lower ...)
DetectDiagramRequest(q) ==
    \E question_lower \in {Lower(q)} :
        \E keyword \in DiagramKeywords : Contains(question_lower, keyword)

\* a.get(key) == b.get(key), where a missing key reads as None
SameValue(a, b, key) ==
    /\ HasKey(a, key) = HasKey(b, key)
    /\ HasKey(a, key) => a[key] = b[key]

\* mutant: the page alone decides
ImageMatches_pageonly(img, doc) == SameValue(img, doc.metadata, "page")

ImageMatches(img, doc) ==
    SameValue(img, doc.metadata, "page") /\ SameValue(img, doc.metadata, "source")

RECURSIVE FindRelevantImages(_, _)
FindRelevantImages(ds, catalog) ==
    IF ds = <<>> THEN <<>>
    ELSE LET doc == Head(ds)
             Same(img) == ImageMatches(img, doc)
         IN  SelectSeq(catalog, Same) \o FindRelevantImages(Tail(ds), catalog)

AnyHasDiagram(ds) ==
    \E i \in 1..Len(ds) :
        HasKey(ds[i].metadata, "has_diagram") /\ ds[i].metadata.has_diagram

\* mutant: include_images is not looked at
ImagesTriggered_forced(ii, wants, ds) == wants \/ AnyHasDiagram(ds)

ImagesTriggered(ii, wants, ds) == ii /\ (wants \/ AnyHasDiagram(ds))

\* mutant: every relevant image is gone through
AnalysedSlice_all(imgs) == imgs

\* relevant_images[:3]
AnalysedSlice(imgs) == SubSeq(imgs, 1, Min2(MaxAnalysed, Len(imgs)))

\* img_path and Path(img_path).exists()
PathUsable(img, existing) == HasKey(img, "path") /\ img.path # "" /\ img.path \in existing

\* mutant: a failed analysis is recorded as an empty text
VisionFailure_blank(msg) == ""

VisionFailure(msg) == "Could not analyze image: " \o msg

AnalysisEntry(img, text) ==
    [filename |-> Fmt(img, "filename", "None"),
     page     |-> Fmt(img, "page", "None"),
     analysis |-> text]

DiagramHeader == "\n\n--- DIAGRAM ANALYSIS ---\n\n"

DiagramEntry(idx, a) ==
    "[Diagram " \o ToString(idx) \o ": " \o a.filename \o ", Page " \o a.page \o "]\n"
        \o a.analysis \o "\n\n"

RECURSIVE DiagramEntries(_, _)
DiagramEntries(analyses, idx) ==
    IF idx > Len(analyses) THEN ""
    ELSE DiagramEntry(idx, analyses[idx]) \o DiagramEntries(analyses, idx + 1)

\* mutant: the section header is added whether or not there are analyses
WithDiagrams_always(ctx, analyses) ==
    ctx \o "\n\n--- DIAGRAM ANALYSIS ---\n\n"
        \o (IF Len(analyses) > 0 THEN DiagramEntries(analyses, 1) ELSE "")

\* the context with the diagram section added when there are analyses
WithDiagrams(ctx, analyses) ==
    IF Len(analyses) > 0 THEN ctx \o DiagramHeader \o DiagramEntries(analyses, 1)
    ELSE ctx

ImageResult(img) ==
    [filename |-> Fmt(img, "filename", "None"), path |-> Fmt(img, "path", "None"),
     page |-> Fmt(img, "page", "None"), source |-> Fmt(img, "source", "None"),
     width |-> IF HasKey(img, "width") THEN img.width ELSE 0,
     height |-> IF HasKey(img, "height") THEN img.height ELSE 0]

ImageResults(imgs) == [i \in 1..Len(imgs) |-> ImageResult(imgs[i])]

\* mutant: "high" needs images whatever the question
MultimodalConfidence_strict(srcs, wants, imgs) ==
    IF Len(srcs) > 0 /\ Len(imgs) > 0 THEN "high" ELSE "medium"

MultimodalConfidence(srcs, wants, imgs) ==
    IF (Len(srcs) > 0 /\ ~wants) \/ (Len(srcs) > 0 /\ Len(imgs) > 0)
    THEN "high" ELSE "medium"

(***************************************************************************)
(* Regular expressions of extract_metadata_from_text, as matchers: each    *)
(* ...End(s, i) is the index of the last character of the match that       *)
(* starts at i, or 0 if the pattern does not match there.                  *)
(***************************************************************************)
\* None
PyNone == "<None>"

Digits == {"0", "1", "2", "3", "4", "5", "6", "7", "8", "9"}
Whitespace == {" ", "\t", "\n", "\r", "\f"}

CharAt(s, i) == IF i >= 1 /\ i <= Len(s) THEN SubSeq(s, i, i) ELSE ""

\* \d{n} at i
DigitsAt(s, i, n) == \A k \in 0..(n - 1) : CharAt(s, i + k) \in Digits

\* the literal at i
StartsAt(s, i, lit) ==
    i >= 1 /\ i + Len(lit) - 1 <= Len(s) /\ SubSeq(s, i, i + Len(lit) - 1) = lit

\* re.search(pattern, s).group(0): the match at the leftmost position
RegexSearch(s, ends) ==
    IF \E i \in 1..Len(s) : ends[i] > 0
    THEN LET i == CHOOSE k \in 1..Len(s) :
                      ends[k] > 0 /\ \A j \in 1..(k - 1) : ends[j] = 0
         IN  SubSeq(s, i, ends[i])
    ELSE PyNone

\* -?(\d{2})?-?(\d{2})? from p on (each part taken when it is there)
AtaTail(s, p) ==
    LET p1 == IF CharAt(s, p) = "-" THEN p + 1 ELSE p
        p2 == IF DigitsAt(s, p1, 2) THEN p1 + 2 ELSE p1
        p3 == IF CharAt(s, p2) = "-" THEN p2 + 1 ELSE p2
        p4 == IF DigitsAt(s, p3, 2) THEN p3 + 2 ELSE p3
    IN  p4 - 1

\* (?:ATA[\s-]?)?(\d{2})-?(\d{2})?-?(\d{2})?
AtaEnd(s, i) ==
    IF StartsAt(s, i, "ATA")
    THEN IF CharAt(s, i + 3) \in Whitespace \cup {"-"} /\ DigitsAt(s, i + 4, 2)
         THEN AtaTail(s, i + 6)
         ELSE IF DigitsAt(s, i + 3, 2) THEN AtaTail(s, i + 5) ELSE 0
    ELSE IF DigitsAt(s, i, 2) THEN AtaTail(s, i + 2) ELSE 0

\* (A\d{3}(?:-\d{3})?)
AirbusEnd(s, i) ==
    IF CharAt(s, i) = "A" /\ DigitsAt(s, i + 1, 3)
    THEN IF CharAt(s, i + 4) = "-" /\ DigitsAt(s, i + 5, 3) THEN i + 7 ELSE i + 3
    ELSE 0

\* (\d{3}(?:-\d{1,3})?)
ModelNumberEnd(s, i) ==
    IF DigitsAt(s, i, 3)
    THEN IF CharAt(s, i + 3) = "-" /\ DigitsAt(s, i + 4, 1)
         THEN IF DigitsAt(s, i + 4, 3) THEN i + 6
              ELSE IF DigitsAt(s, i + 4, 2) THEN i + 5 ELSE i + 4
         ELSE i + 2
    ELSE 0

RECURSIVE SkipSpaces(_, _)
SkipSpaces(s, i) == IF CharAt(s, i) \in Whitespace THEN SkipSpaces(s, i + 1) ELSE i

\* (Boeing\s+)?(\d{3}(?:-\d{1,3})?)
BoeingEnd(s, i) ==
    IF StartsAt(s, i, "Boeing") /\ CharAt(s, i + 6) \in Whitespace
    THEN ModelNumberEnd(s, SkipSpaces(s, i + 6))
    ELSE ModelNumberEnd(s, i)

\* (B\d{3})
BCodeEnd(s, i) == IF CharAt(s, i) = "B" /\ DigitsAt(s, i + 1, 3) THEN i + 3 ELSE 0

\* mutant: the B code is tried before the Boeing pattern
AircraftType_bfirst(text) ==
    LET Ends(End(_, _)) == [i \in 1..Len(text) |-> End(text, i)]
        airbus == RegexSearch(text, Ends(AirbusEnd))
        bcode == RegexSearch(text, Ends(BCodeEnd))
    IN  IF airbus # PyNone THEN airbus
        ELSE IF bcode # PyNone THEN bcode
        ELSE RegexSearch(text, Ends(BoeingEnd))

\* the first of the three patterns that matches decides
AircraftType(text) ==
    LET Ends(End(_, _)) == [i \in 1..Len(text) |-> End(text, i)]
        airbus == RegexSearch(text, Ends(AirbusEnd))
        boeing == RegexSearch(text, Ends(BoeingEnd))
    IN  IF airbus # PyNone THEN airbus
        ELSE IF boeing # PyNone THEN boeing
        ELSE RegexSearch(text, Ends(BCodeEnd))

\* re.search(r'STEP \d+|PROCEDURE', text, re.IGNORECASE)
IsProcedure(text) ==
    LET u == Upper(text)
    IN  \/ \E i \in 1..Len(u) : StartsAt(u, i, "STEP ") /\ DigitsAt(u, i + 5, 1)
        \/ Contains(u, "PROCEDURE")

\* FIG(?:URE)?[\s\.]?\d+ at i, case ignored
FigureRefAt(u, i) ==
    /\ StartsAt(u, i, "FIG")
    /\ LET j == IF StartsAt(u, i + 3, "URE") THEN i + 6 ELSE i + 3
       IN  \/ DigitsAt(u, j, 1)
           \/ CharAt(u, j) \in Whitespace \cup {"."} /\ DigitsAt(u, j + 1, 1)

\* re.findall(r'FIG(?:URE)?[\s\.]?(\d+)', text, re.IGNORECASE) is not empty
HasFigureRef(text) == LET u == Upper(text) IN \E i \in 1..Len(u) : FigureRefAt(u, i)

\* re.search(r'FIG(?:URE)?[\s\.]?\d+|DIAGRAM|ILLUSTRATION', text, re.IGNORECASE)
HasDiagram(text) ==
    HasFigureRef(text) \/ Contains(Upper(text), "DIAGRAM")
        \/ Contains(Upper(text), "ILLUSTRATION")

(***************************************************************************)
(* extract_metadata_from_text of the two processors.                       *)
(***************************************************************************)
\* dict.update: the keys of u override those of d
Update(d, u) ==
    [k \in DOMAIN d \cup DOMAIN u |-> IF k \in DOMAIN u THEN u[k] ELSE d[k]]

ExtractMetadata(text, filename, proc) ==
    LET common == [source        |-> filename,
                   ata_chapter   |-> RegexSearch(text, [i \in 1..Len(text) |-> AtaEnd(text, i)]),
                   aircraft_type |-> AircraftType(text),
                   has_warning   |-> Contains(Upper(text), "WARNING"),
                   has_caution   |-> Contains(Upper(text), "CAUTION"),
                   is_procedure  |-> IsProcedure(text)]
    IN  IF proc = "images"
        THEN Update(common, [has_diagram |-> HasDiagram(text)])
        ELSE common

(***************************************************************************)
(* The PDFs the processors are given: a file name and, per page, the text  *)
(* and the images the PDF library extracts.                                *)
(***************************************************************************)
MaxPdfs == 2

ImgP2a ==
    [image_index |-> 0, filename |-> "manual_p2_img0.png",
     path |-> "data/processed/images/manual_p2_img0.png",
     ext |-> "png", width |-> 640, height |-> 480, page |-> 2, source |-> "manual.pdf"]
ImgP2b ==
    [image_index |-> 1, filename |-> "manual_p2_img1.png",
     path |-> "data/processed/images/manual_p2_img1.png",
     ext |-> "png", width |-> 640, height |-> 480, page |-> 2, source |-> "manual.pdf"]
ImgB1 ==
    [image_index |-> 0, filename |-> "b737_p1_img0.jpeg",
     path |-> "data/processed/images/b737_p1_img0.jpeg",
     ext |-> "jpeg", width |-> 320, height |-> 200, page |-> 1, source |-> "b737.pdf"]

PdfManual ==
    [name |-> "manual.pdf",
     pages |-> <<[text |-> "WARNING: hot surface near the APU.\nCheck the A320 oil level.\nSTEP 1 open panel 32-41-00.",
                  images |-> <<>>],
                 [text |-> "Caution is advised.\nSee Figure 3 for the layout.",
                  images |-> <<ImgP2a, ImgP2b>>]>>]
PdfB737 ==
    [name |-> "b737.pdf",
     pages |-> <<[text |-> "Boeing 737-800 fuel pump.\nB737 landing gear warning lamp.",
                  images |-> <<ImgB1>>],
                 [text |-> "", images |-> <<>>]>>]
PdfNotes ==
    [name |-> "notes.pdf",
     pages |-> <<[text |-> "General notes on the cabin.", images |-> <<>>]>>]

PdfPool == {PdfManual, PdfB737, PdfNotes}

\* input_path.glob("*.pdf"): some files of distinct names, in any order
Directories ==
    {d \in UNION {[1..n -> PdfPool] : n \in 1..MaxPdfs} :
        \A i, j \in 1..Len(d) : i # j => d[i].name # d[j].name}

Processors == {"text", "images"}

(***************************************************************************)
(* extract_text_from_pdf / extract_text_and_images_from_pdf.               *)
(***************************************************************************)
\* mutant: the page number is not counted up
PageMetadata_firstpage(pdf, n, proc) ==
    LET base == IF proc = "images"
                THEN [page |-> 1, source |-> pdf.name,
                      num_images |-> Len(pdf.pages[n].images)]
                ELSE [page |-> 1, source |-> pdf.name]
    IN  Update(base, ExtractMetadata(pdf.pages[n].text, pdf.name, proc))

PageMetadata(pdf, n, proc) ==
    LET base == IF proc = "images"
                THEN [page |-> n, source |-> pdf.name,
                      num_images |-> Len(pdf.pages[n].images)]
                ELSE [page |-> n, source |-> pdf.name]
    IN  Update(base, ExtractMetadata(pdf.pages[n].text, pdf.name, proc))

ExtractPage(pdf, n, proc) ==
    IF proc = "images"
    THEN [text |-> pdf.pages[n].text, metadata |-> PageMetadata(pdf, n, proc),
          images |-> pdf.pages[n].images]
    ELSE [text |-> pdf.pages[n].text, metadata |-> PageMetadata(pdf, n, proc)]

ExtractPages(pdf, proc) == [n \in 1..Len(pdf.pages) |-> ExtractPage(pdf, n, proc)]

(***************************************************************************)
(* text_splitter.split_text: the library's splitter, taken as cutting the  *)
(* text at any of its line breaks; an empty text gives no segment.         *)
(***************************************************************************)
RECURSIVE SplitLines(_)
SplitLines(text) ==
    IF \E i \in 1..Len(text) : CharAt(text, i) = "\n"
    THEN LET i == CHOOSE k \in 1..Len(text) :
                      CharAt(text, k) = "\n" /\ \A j \in 1..(k - 1) : CharAt(text, j) # "\n"
         IN  <<SubSeq(text, 1, i - 1)>> \o SplitLines(SubSeq(text, i + 1, Len(text)))
    ELSE <<text>>

RECURSIVE SegmentsFrom(_, _, _)
SegmentsFrom(lines, cuts, first) ==
    IF first > Len(lines) THEN <<>>
    ELSE LET last == CHOOSE k \in first..Len(lines) :
                         /\ k \in cuts \cup {Len(lines)}
                         /\ \A j \in first..(k - 1) : j \notin cuts
         IN  <<Join(SubSeq(lines, first, last), "\n")>> \o SegmentsFrom(lines, cuts, last + 1)

SplitText(text) ==
    IF text = "" THEN {<<>>}
    ELSE LET lines == SplitLines(text)
         IN  {SegmentsFrom(lines, cuts, 1) : cuts \in SUBSET (1..(Len(lines) - 1))}

(***************************************************************************)
(* create_chunks / create_chunks_with_images.                              *)
(***************************************************************************)
NullableKeys == {"ata_chapter", "aircraft_type"}

\* v is None (only the two extracted codes can be)
IsNone(d, k) == k \in NullableKeys /\ d[k] = PyNone

\* mutant: `if v` for `if v is not None`: a False flag no longer overrides
Overrides_truthy(cs, k) ==
    /\ k # "source"
    /\ IF k \in NullableKeys THEN cs[k] # PyNone ELSE cs[k] = TRUE

\* mutant: every chunk-level field but source overrides, None included
Overrides_nullable(cs, k) == k # "source"

\* if v is not None and k not in ["source"]
Overrides(cs, k) == ~IsNone(cs, k) /\ k # "source"

ChunkMetadata(page, i, chunk_text, proc) ==
    LET inherited == Update(page.metadata, [chunk_index |-> i])
        chunk_specific == ExtractMetadata(chunk_text, page.metadata.source, proc)
        kept == {k \in DOMAIN chunk_specific : Overrides(chunk_specific, k)}
    IN  Update(inherited, [k \in kept |-> chunk_specific[k]])

\* mutant: the images of the page go to every chunk of the page
AssociatedImages_always(page, chunk_text, md) == page.images

AssociatedImages(page, chunk_text, md) ==
    IF Len(page.images) > 0
           /\ (HasFigureRef(chunk_text) \/ (HasKey(md, "has_diagram") /\ md.has_diagram))
    THEN page.images ELSE <<>>

MakeChunk(page, i, chunk_text, proc) ==
    LET md == ChunkMetadata(page, i, chunk_text, proc)
    IN  IF proc = "images"
        THEN [text |-> chunk_text, metadata |-> md,
              images |-> AssociatedImages(page, chunk_text, md)]
        ELSE [text |-> chunk_text, metadata |-> md]

\* mutant: chunk_index counted from 1
PageChunks_onebased(page, segments, proc) ==
    [i \in 1..Len(segments) |-> MakeChunk(page, i, segments[i], proc)]

\* the chunks of one page: chunk_index is the 0-based place of the segment
PageChunks(page, segments, proc) ==
    [i \in 1..Len(segments) |-> MakeChunk(page, i - 1, segments[i], proc)]

(***************************************************************************)
(* process_directory's counters.                                           *)
(***************************************************************************)
\* sum(1 for c in chunks if test(c))
ChunkHasWarning(c) == c.metadata.has_warning
ChunkIsProcedure(c) == c.metadata.is_procedure
ChunkHasImages(c) == HasKey(c, "images") /\ Len(c.images) > 0

RECURSIVE PageImages(_)
\* the images of all pages, in page order
PageImages(ps) ==
    IF ps = <<>> THEN <<>> ELSE Head(ps).images \o PageImages(Tail(ps))

InitialStats(proc) ==
    IF proc = "images"
    THEN [total_pdfs |-> 0, total_pages |-> 0, total_chunks |-> 0, total_images |-> 0,
          chunks_with_warnings |-> 0, chunks_with_procedures |-> 0,
          chunks_with_diagrams |-> 0]
    ELSE [total_pdfs |-> 0, total_pages |-> 0, total_chunks |-> 0,
          chunks_with_warnings |-> 0, chunks_with_procedures |-> 0]

StatsAfterExtract(st, ps) ==
    Update(st, [total_pdfs |-> st.total_pdfs + 1,
                total_pages |-> st.total_pages + Len(ps)])

StatsAfterChunks(st, ps, cs, proc) ==
    LET common == [total_chunks |-> st.total_chunks + Len(cs),
                   chunks_with_warnings |->
                       st.chunks_with_warnings + Len(SelectSeq(cs, ChunkHasWarning)),
                   chunks_with_procedures |->
                       st.chunks_with_procedures + Len(SelectSeq(cs, ChunkIsProcedure))]
    IN  IF proc = "images"
        THEN Update(Update(st, common),
                    [total_images |-> st.total_images + Len(PageImages(ps)),
                     chunks_with_diagrams |->
                         st.chunks_with_diagrams + Len(SelectSeq(cs, ChunkHasImages))])
        ELSE Update(st, common)

(***************************************************************************)
(* Prompts.                                                                *)
(***************************************************************************)
PlainSystemPrompt ==
    "You are an aircraft maintenance assistant with strict guidelines:\n"
        \o "\n"
        \o "CRITICAL RULES:\n"
        \o "1. ONLY answer based on the provided context - never use outside knowledge\n"
        \o "2. If the context doesn't contain the answer, say: \"I cannot find this information in the available manuals. Please consult a certified technician or the complete manual.\"\n"
        \o "3. ALWAYS cite: [Source: {manual name}, Page: {page}]\n"
        \o "4. Use aviation terminology correctly (APU, MEL, ETOPS, etc.)\n"
        \o "5. For procedures, use numbered steps\n"
        \o "6. For safety-critical items, emphasize warnings\n"
        \o "7. End EVERY answer with: \"!! Verify with certified manual before performing maintenance\"\n"
        \o "\n"
        \o "Context quality indicators:\n"
        \o "- If context seems incomplete or unclear, say so\n"
        \o "- If multiple sources contradict, mention both\n"
        \o "- If context is about a different aircraft type, note this\n"

MultimodalSystemPrompt ==
    "You are an aircraft maintenance assistant with strict guidelines:\n"
        \o "\n"
        \o "CRITICAL RULES:\n"
        \o "1. ONLY answer based on the provided context - never use outside knowledge\n"
        \o "2. If the context doesn't contain the answer, say: \"I cannot find this information in the available manuals.\"\n"
        \o "3. ALWAYS cite: [Source: {manual name}, Page: {page}]\n"
        \o "4. When diagrams are relevant, reference them: [See Diagram: Figure X on Page Y]\n"
        \o "5. Use aviation terminology correctly\n"
        \o "6. For procedures, use numbered steps\n"
        \o "7. End EVERY answer with: \"!! Verify with certified manual before performing maintenance\"\n"

SystemPrompt(pl) == IF pl = "plain" THEN PlainSystemPrompt ELSE MultimodalSystemPrompt

AnswerCue(pl) ==
    IF pl = "plain" THEN "Answer with citations:"
    ELSE "Answer with citations (include diagram references if relevant):"

FullPrompt(pl, ctx, q) ==
    SystemPrompt(pl) \o "\n\nContext from manuals:\n" \o ctx
        \o "\n\nQuestion: " \o q \o "\n\n" \o AnswerCue(pl)

(***************************************************************************)
(* The dicts query returns.                                                *)
(***************************************************************************)
ZeroResult(pl) ==
    IF pl = "plain"
    THEN [answer |-> "!! I cannot find relevant information in the loaded manuals. Please verify the question or check if the appropriate manual is loaded.",
          sources |-> <<>>,
          confidence |-> "none",
          quality_check |-> [has_issues |-> TRUE, issues |-> <<"No documents found">>]]
    ELSE [answer |-> "!! I cannot find relevant information in the loaded manuals.",
          sources |-> <<>>,
          images |-> <<>>,
          confidence |-> "none"]

PlainResult(ans, srcs, qc) ==
    [answer |-> ans, sources |-> srcs, confidence |-> qc.confidence,
     quality_check |-> qc]

MultimodalResult(ans, srcs, imgs, analyses, wants) ==
    [answer |-> ans, sources |-> srcs, images |-> imgs,
     image_analyses |-> analyses,
     confidence |-> MultimodalConfidence(srcs, wants, imgs),
     has_diagrams |-> Len(imgs) > 0]

\* mutant: the empty-retrieval test is missing
NoDocuments_unchecked(ds) == FALSE

\* if not docs or len(docs) == 0
NoDocuments(ds) == Len(ds) = 0

\* 'NoneType' object has no attribute 'similarity_search'
UnsetIndexError == "'NoneType' object has no attribute 'similarity_search'"

(***************************************************************************)
(* The state after construction: no index in memory, whatever an earlier   *)
(* run persisted on disk, the image catalog read from its file.            *)
(***************************************************************************)
Locals ==
    /\ pipeline = "plain"
    /\ question = ""
    /\ return_sources = TRUE
    /\ include_images = TRUE
    /\ docs = <<>>
    /\ wants_diagrams = FALSE
    /\ context = ""
    /\ relevant_images = <<>>
    /\ image_analyses = <<>>
    /\ imgIdx = 1
    /\ full_prompt = ""
    /\ answer = ""
    /\ result = NoResult
    /\ raised = ""
    /\ llmCalls = 0
    /\ llmFault = ""
    /\ visionCalls = 0
    /\ loadCalls = 0
    /\ checked = NotChecked
    /\ call = NoCall
    /\ parked = IdleQuery

\* no document processing is under way
NoProcessing ==
    /\ processor = "text"
    /\ pdfs = <<>>
    /\ pdfIdx = 1
    /\ pages = <<>>
    /\ pageIdx = 1
    /\ chunks = <<>>
    /\ all_chunks = <<>>
    /\ all_images = <<>>
    /\ stats = InitialStats("text")
    /\ cpc = "off"

Init ==
    /\ NoProcessing
    /\ vectorstore = NoIndex
    /\ disk \in DiskPool
    /\ \E store \in ImageStores :
        images_catalog = store.catalog /\ files = store.files
    /\ pc = "idle"
    /\ Locals

\* query(question, return_sources, include_images) is called
StartQuery ==
    /\ pc = "idle"
    /\ \E pl \in Pipelines, q \in Questions, rs \in BOOLEAN, ii \in BOOLEAN :
        /\ pl = "plain" => ii = TRUE
        /\ pipeline' = pl
        /\ question' = q
        /\ return_sources' = rs
        /\ include_images' = ii
    /\ pc' = "load"
    /\ call' = NoCall
    /\ UNCHANGED <<parked, vectorstore, disk, images_catalog, files, docs, wants_diagrams,
                   context, relevant_images, image_analyses, imgIdx, full_prompt,
                   answer, result, raised, llmCalls, llmFault, visionCalls,
                   loadCalls, checked>>
    /\ UNCHANGED chunkVars

\* mutant: every query loads the index again
LoadIndex_always ==
    /\ pc = "load"
    /\ vectorstore' = LoadVectorstore(vectorstore, disk)
    /\ loadCalls' = loadCalls + 1
    /\ pc' = "search"
    /\ UNCHANGED <<call, parked, disk, images_catalog, files, pipeline, question, return_sources,
                   include_images, docs, wants_diagrams, context, relevant_images,
                   image_analyses, imgIdx, full_prompt, answer, result, raised,
                   llmCalls, llmFault, visionCalls, checked>>
    /\ UNCHANGED chunkVars

\* if not self.vs_manager.vectorstore: self.vs_manager.load_vectorstore()
LoadIndex ==
    /\ pc = "load"
    /\ IF vectorstore = NoIndex
       THEN /\ vectorstore' = LoadVectorstore(vectorstore, disk)
            /\ loadCalls' = loadCalls + 1
       ELSE UNCHANGED <<vectorstore, loadCalls>>
    /\ pc' = "search"
    /\ UNCHANGED <<call, parked, disk, images_catalog, files, pipeline, question, return_sources,
                   include_images, docs, wants_diagrams, context, relevant_images,
                   image_analyses, imgIdx, full_prompt, answer, result, raised,
                   llmCalls, llmFault, visionCalls, checked>>
    /\ UNCHANGED chunkVars

\* docs = self.vs_manager.vectorstore.similarity_search(question, k=5), and
\* the return of the fixed result when there are no documents
Search ==
    /\ pc = "search"
    /\ IF vectorstore = NoIndex
       THEN /\ raised' = UnsetIndexError
            /\ pc' = "raised"
            /\ UNCHANGED <<docs, result>>
       ELSE \E ds \in SimilaritySearch(vectorstore, TopK) :
                /\ docs' = ds
                /\ IF NoDocuments(ds)
                   THEN result' = ZeroResult(pipeline) /\ pc' = "done"
                   ELSE result' = result /\ pc' = "assemble"
                /\ UNCHANGED raised
    /\ UNCHANGED <<call, parked, vectorstore, disk, images_catalog, files, pipeline, question,
                   return_sources, include_images, wants_diagrams, context,
                   relevant_images, image_analyses, imgIdx, full_prompt, answer,
                   llmCalls, llmFault, visionCalls, loadCalls, checked>>
    /\ UNCHANGED chunkVars

\* the text context; in the multimodal pipeline also the diagram request and
\* the images of the retrieved pages
Assemble ==
    /\ pc = "assemble"
    /\ context' = BuildContext(docs)
    /\ IF pipeline = "multimodal"
       THEN LET wants == DetectDiagramRequest(question)
            IN  /\ wants_diagrams' = wants
                /\ relevant_images' =
                       IF ImagesTriggered(include_images, wants, docs)
                       THEN FindRelevantImages(docs, images_catalog) ELSE <<>>
                /\ pc' = "vision"
       ELSE /\ UNCHANGED <<wants_diagrams, relevant_images>>
            /\ pc' = "prompt"
    /\ UNCHANGED <<call, parked, vectorstore, disk, images_catalog, files, pipeline, question,
                   return_sources, include_images, docs, image_analyses, imgIdx,
                   full_prompt, answer, result, raised, llmCalls, llmFault, visionCalls,
                   loadCalls, checked>>
    /\ UNCHANGED chunkVars

\* one turn of `for img in relevant_images[:3]`
AnalyzeImage ==
    /\ pc = "vision"
    /\ imgIdx <= Len(AnalysedSlice(relevant_images))
    /\ LET img == relevant_images[imgIdx]
       IN  IF PathUsable(img, files)
           THEN \/ \E text \in VisionResponses :     \* the vision model answers
                    /\ image_analyses' = Append(image_analyses, AnalysisEntry(img, text))
                    /\ visionCalls' = visionCalls + 1
                \/ \E msg \in VisionErrors :         \* the vision model raises
                    /\ image_analyses' =
                           Append(image_analyses, AnalysisEntry(img, VisionFailure(msg)))
                    /\ visionCalls' = visionCalls + 1
                \/ \E msg \in FileErrors :           \* reading the file raises
                    /\ image_analyses' =
                           Append(image_analyses, AnalysisEntry(img, VisionFailure(msg)))
                    /\ UNCHANGED visionCalls
           ELSE UNCHANGED <<image_analyses, visionCalls>>
    /\ imgIdx' = imgIdx + 1
    /\ UNCHANGED <<call, parked, vectorstore, disk, images_catalog, files, pc, pipeline, question,
                   return_sources, include_images, docs, wants_diagrams, context,
                   relevant_images, full_prompt, answer, result, raised, llmCalls, llmFault,
                   loadCalls, checked>>
    /\ UNCHANGED chunkVars

\* the loop is over: the diagram section joins the context
AddDiagrams ==
    /\ pc = "vision"
    /\ imgIdx > Len(AnalysedSlice(relevant_images))
    /\ context' = WithDiagrams(context, image_analyses)
    /\ pc' = "prompt"
    /\ UNCHANGED <<call, parked, vectorstore, disk, images_catalog, files, pipeline, question,
                   return_sources, include_images, docs, wants_diagrams,
                   relevant_images, image_analyses, imgIdx, full_prompt, answer,
                   result, raised, llmCalls, llmFault, visionCalls, loadCalls, checked>>
    /\ UNCHANGED chunkVars

BuildPrompt ==
    /\ pc = "prompt"
    /\ full_prompt' = FullPrompt(pipeline, context, question)
    /\ pc' = "generate"
    /\ UNCHANGED <<call, parked, vectorstore, disk, images_catalog, files, pipeline, question,
                   return_sources, include_images, docs, wants_diagrams, context,
                   relevant_images, image_analyses, imgIdx, answer, result, raised,
                   llmCalls, llmFault, visionCalls, loadCalls, checked>>
    /\ UNCHANGED chunkVars

\* mutant: the first answer is thrown away and the model is asked again
Generate_retry ==
    /\ pc = "generate"
    /\ \E ans \in Answers :
        LET srcs == FormatSources(docs, return_sources, pipeline)
        IN  /\ answer' = ans
            /\ IF pipeline = "plain"
               THEN /\ checked' = [answer |-> ans, sources |-> srcs]
                    /\ result' = PlainResult(ans, srcs, CheckAnswerQuality(ans, srcs))
               ELSE /\ UNCHANGED checked
                    /\ result' = MultimodalResult(ans, srcs, ImageResults(relevant_images),
                                                  image_analyses, wants_diagrams)
    /\ llmCalls' = llmCalls + 1
    /\ pc' = IF llmCalls = 0 THEN "generate" ELSE "done"
    /\ UNCHANGED llmFault
    /\ UNCHANGED <<call, parked, vectorstore, disk, images_catalog, files, pipeline, question,
                   return_sources, include_images, docs, wants_diagrams, context,
                   relevant_images, image_analyses, imgIdx, full_prompt, raised,
                   visionCalls, loadCalls>>
    /\ UNCHANGED chunkVars

\* answer = llm.invoke(full_prompt) returns; the sources, the quality check
\* (plain pipeline) or the image results (multimodal), and the returned dict
Generate ==
    /\ pc = "generate"
    /\ \E ans \in Answers :
        LET srcs == FormatSources(docs, return_sources, pipeline)
        IN  /\ answer' = ans
            /\ IF pipeline = "plain"
               THEN /\ checked' = [answer |-> ans, sources |-> srcs]
                    /\ result' = PlainResult(ans, srcs, CheckAnswerQuality(ans, srcs))
               ELSE /\ UNCHANGED checked
                    /\ result' = MultimodalResult(ans, srcs, ImageResults(relevant_images),
                                                  image_analyses, wants_diagrams)
    /\ llmCalls' = llmCalls + 1
    /\ pc' = "done"
    /\ UNCHANGED llmFault
    /\ UNCHANGED <<call, parked, vectorstore, disk, images_catalog, files, pipeline, question,
                   return_sources, include_images, docs, wants_diagrams, context,
                   relevant_images, image_analyses, imgIdx, full_prompt, raised,
                   visionCalls, loadCalls>>
    /\ UNCHANGED chunkVars

\* llm.invoke(full_prompt) raises: query has no handler around it and is not
\* wrapped by handle_query_errors, so the exception leaves query
GenerateFails ==
    /\ pc = "generate"
    /\ \E msg \in LLMErrors : llmFault' = msg /\ raised' = msg
    /\ llmCalls' = llmCalls + 1
    /\ pc' = "raised"
    /\ UNCHANGED <<call, parked, vectorstore, disk, images_catalog, files, pipeline, question,
                   return_sources, include_images, docs, wants_diagrams, context,
                   relevant_images, image_analyses, imgIdx, full_prompt, answer,
                   result, visionCalls, loadCalls, checked>>
    /\ UNCHANGED chunkVars

\* the caller has the result, or the exception; the locals of the call and
\* the counters kept for it are gone
Return ==
    /\ pc \in {"done", "raised"}
    /\ pc' = "idle"
    /\ pipeline' = "plain"
    /\ question' = ""
    /\ return_sources' = TRUE
    /\ include_images' = TRUE
    /\ docs' = <<>>
    /\ wants_diagrams' = FALSE
    /\ context' = ""
    /\ relevant_images' = <<>>
    /\ image_analyses' = <<>>
    /\ imgIdx' = 1
    /\ full_prompt' = ""
    /\ answer' = ""
    /\ result' = NoResult
    /\ raised' = ""
    /\ llmCalls' = 0
    /\ llmFault' = ""
    /\ visionCalls' = 0
    /\ loadCalls' = 0
    /\ checked' = NotChecked
    /\ UNCHANGED <<call, parked, vectorstore, disk, images_catalog, files>>
    /\ UNCHANGED chunkVars

Next ==
    \/ StartQuery
    \/ LoadIndex
    \/ Search
    \/ Assemble
    \/ AnalyzeImage
    \/ AddDiagrams
    \/ BuildPrompt
    \/ Generate
    \/ GenerateFails
    \/ Return

Spec == Init /\ [][Next]_vars

\* a query under way goes on: query is straight-line code with one bounded
\* loop, and each call it makes to the index or to a model returns or raises
QueryProgress ==
    \/ LoadIndex
    \/ Search
    \/ Assemble
    \/ AnalyzeImage
    \/ AddDiagrams
    \/ BuildPrompt
    \/ Generate
    \/ GenerateFails

SpecFair == Init /\ [][Next]_vars /\ WF_vars(QueryProgress)

(***************************************************************************)
(* Two calls of query under way on the same pipeline object and manager.   *)
(* Everything query works on is a local of the call (question, docs,       *)
(* context, ..., the dict it returns); the calls share the manager's index,*)
(* the directory and the image catalog.  One call runs at a time and the   *)
(* other is parked; Switch hands the processor over.                       *)
(***************************************************************************)
\* the locals of the call that is running
Running ==
    [pc |-> pc, pipeline |-> pipeline, question |-> question,
     return_sources |-> return_sources, include_images |-> include_images,
     docs |-> docs, wants_diagrams |-> wants_diagrams, context |-> context,
     relevant_images |-> relevant_images, image_analyses |-> image_analyses,
     imgIdx |-> imgIdx, full_prompt |-> full_prompt, answer |-> answer,
     result |-> result, raised |-> raised, llmCalls |-> llmCalls,
     llmFault |-> llmFault, visionCalls |-> visionCalls, loadCalls |-> loadCalls,
     checked |-> checked]

\* mutant: docs is kept on the pipeline object, not in the call
Switch_leaky ==
    /\ parked # Running
    /\ parked' = Running
    /\ pc' = parked.pc
    /\ pipeline' = parked.pipeline
    /\ question' = parked.question
    /\ return_sources' = parked.return_sources
    /\ include_images' = parked.include_images
    /\ docs' = docs
    /\ wants_diagrams' = parked.wants_diagrams
    /\ context' = parked.context
    /\ relevant_images' = parked.relevant_images
    /\ image_analyses' = parked.image_analyses
    /\ imgIdx' = parked.imgIdx
    /\ full_prompt' = parked.full_prompt
    /\ answer' = parked.answer
    /\ result' = parked.result
    /\ raised' = parked.raised
    /\ llmCalls' = parked.llmCalls
    /\ llmFault' = parked.llmFault
    /\ visionCalls' = parked.visionCalls
    /\ loadCalls' = parked.loadCalls
    /\ checked' = parked.checked
    /\ UNCHANGED <<call, vectorstore, disk, images_catalog, files>>
    /\ UNCHANGED chunkVars

\* the running call is parked with its locals and the parked one runs on
Switch ==
    /\ parked # Running
    /\ parked' = Running
    /\ pc' = parked.pc
    /\ pipeline' = parked.pipeline
    /\ question' = parked.question
    /\ return_sources' = parked.return_sources
    /\ include_images' = parked.include_images
    /\ docs' = parked.docs
    /\ wants_diagrams' = parked.wants_diagrams
    /\ context' = parked.context
    /\ relevant_images' = parked.relevant_images
    /\ image_analyses' = parked.image_analyses
    /\ imgIdx' = parked.imgIdx
    /\ full_prompt' = parked.full_prompt
    /\ answer' = parked.answer
    /\ result' = parked.result
    /\ raised' = parked.raised
    /\ llmCalls' = parked.llmCalls
    /\ llmFault' = parked.llmFault
    /\ visionCalls' = parked.visionCalls
    /\ loadCalls' = parked.loadCalls
    /\ checked' = parked.checked
    /\ UNCHANGED <<call, vectorstore, disk, images_catalog, files>>
    /\ UNCHANGED chunkVars

\* the application as it starts: a small index persisted, nothing loaded,
\* the image catalog with its files
InitConcurrent ==
    /\ NoProcessing
    /\ vectorstore = NoIndex
    /\ disk = Persisted(SmallIndex)
    /\ images_catalog = <<ImgFuel1, ImgApu, ImgOther, ImgFuel2>>
    /\ files = {ImgFuel1.path, ImgFuel2.path, ImgApu.path, ImgOther.path}
    /\ pc = "idle"
    /\ Locals

NextConcurrent ==
    \/ Next
    \/ Switch

SpecConcurrent == InitConcurrent /\ [][NextConcurrent]_vars

(***************************************************************************)
(* handle_query_errors(func), with query as the function it wraps.         *)
(***************************************************************************)
\* the dict the handler of `except Exception as e` returns; msg is str(e)
ErrorResult(msg) ==
    [answer |-> "!! Error processing query: " \o msg
                    \o ". Please try rephrasing your question or contact support.",
     sources |-> <<>>,
     confidence |-> "error",
     error |-> msg]

\* mutant: the handler's answer leaves the message out
HandleQueryErrors_generic(outcome, value, msg) ==
    IF outcome = "raised"
    THEN [ErrorResult(msg) EXCEPT !.answer = "!! Error processing query."]
    ELSE value

\* wrapper: `return func(*args, **kwargs)`, or the handler's dict
HandleQueryErrors(outcome, value, msg) ==
    IF outcome = "raised" THEN ErrorResult(msg) ELSE value

\* the wrapped query has returned or raised, and wrapper returns to its
\* caller; the locals of the call are gone
WrapperReturns ==
    /\ pc \in {"done", "raised"}
    /\ call' = [op |-> "handle_query_errors",
                outcome |-> pc,
                value |-> result,
                exception |-> raised,
                returned |-> HandleQueryErrors(pc, result, raised)]
    /\ pc' = "idle"
    /\ pipeline' = "plain"
    /\ question' = ""
    /\ return_sources' = TRUE
    /\ include_images' = TRUE
    /\ docs' = <<>>
    /\ wants_diagrams' = FALSE
    /\ context' = ""
    /\ relevant_images' = <<>>
    /\ image_analyses' = <<>>
    /\ imgIdx' = 1
    /\ full_prompt' = ""
    /\ answer' = ""
    /\ result' = NoResult
    /\ raised' = ""
    /\ llmCalls' = 0
    /\ llmFault' = ""
    /\ visionCalls' = 0
    /\ loadCalls' = 0
    /\ checked' = NotChecked
    /\ UNCHANGED <<parked, vectorstore, disk, images_catalog, files>>
    /\ UNCHANGED chunkVars

NextWrap ==
    \/ StartQuery
    \/ LoadIndex
    \/ Search
    \/ Assemble
    \/ AnalyzeImage
    \/ AddDiagrams
    \/ BuildPrompt
    \/ Generate
    \/ GenerateFails
    \/ WrapperReturns

SpecWrap == Init /\ [][NextWrap]_vars

(***************************************************************************)
(* process_directory of the two document processors.                       *)
(***************************************************************************)
\* no query is under way and nothing is persisted
NoQuerying ==
    /\ vectorstore = NoIndex
    /\ disk = [state |-> "missing", index |-> NoIndex]
    /\ images_catalog = <<>>
    /\ files = {}
    /\ pc = "idle"
    /\ Locals

InitChunk ==
    /\ NoQuerying
    /\ processor \in Processors
    /\ pdfs \in Directories
    /\ pdfIdx = 1
    /\ pages = <<>>
    /\ pageIdx = 1
    /\ chunks = <<>>
    /\ all_chunks = <<>>
    /\ all_images = <<>>
    /\ stats = InitialStats(processor)
    /\ cpc = "extract"

\* the next PDF of the directory is read
ExtractPdf ==
    /\ cpc = "extract"
    /\ pdfIdx <= Len(pdfs)
    /\ LET ps == ExtractPages(pdfs[pdfIdx], processor)
       IN  /\ pages' = ps
           /\ stats' = StatsAfterExtract(stats, ps)
           /\ all_images' = IF processor = "images"
                            THEN all_images \o PageImages(ps) ELSE all_images
    /\ pageIdx' = 1
    /\ chunks' = <<>>
    /\ cpc' = "chunk"
    /\ UNCHANGED <<processor, pdfs, pdfIdx, all_chunks>>
    /\ UNCHANGED queryVars

\* one turn of `for page in pages` of create_chunks / create_chunks_with_images
ChunkPage ==
    /\ cpc = "chunk"
    /\ pageIdx <= Len(pages)
    /\ \E segments \in SplitText(pages[pageIdx].text) :
           chunks' = chunks \o PageChunks(pages[pageIdx], segments, processor)
    /\ pageIdx' = pageIdx + 1
    /\ UNCHANGED <<processor, pdfs, pdfIdx, pages, all_chunks, all_images, stats, cpc>>
    /\ UNCHANGED queryVars

\* create_chunks returns: the counters, and all_chunks.extend(chunks)
CollectChunks ==
    /\ cpc = "chunk"
    /\ pageIdx > Len(pages)
    /\ stats' = StatsAfterChunks(stats, pages, chunks, processor)
    /\ all_chunks' = all_chunks \o chunks
    /\ pdfIdx' = pdfIdx + 1
    /\ cpc' = "extract"
    /\ UNCHANGED <<processor, pdfs, pages, pageIdx, chunks, all_images>>
    /\ UNCHANGED queryVars

\* the directory is done: the chunk file is written and all_chunks returned
SaveChunks ==
    /\ cpc = "extract"
    /\ pdfIdx > Len(pdfs)
    /\ cpc' = "saved"
    /\ UNCHANGED <<processor, pdfs, pdfIdx, pages, pageIdx, chunks, all_chunks,
                   all_images, stats>>
    /\ UNCHANGED queryVars

NextChunk ==
    \/ ExtractPdf
    \/ ChunkPage
    \/ CollectChunks
    \/ SaveChunks

SpecChunk == InitChunk /\ [][NextChunk]_vars

(***************************************************************************)
(* The calls of VectorStoreManager made outside a query.                   *)
(***************************************************************************)
NotInQuery ==
    UNCHANGED <<parked, images_catalog, files, pc, pipeline, question, return_sources,
                include_images, docs, wants_diagrams, context, relevant_images,
                image_analyses, imgIdx, full_prompt, answer, result, raised,
                llmCalls, llmFault, visionCalls, loadCalls, checked>>

\* mutant: the index is dropped and the directory emptied before the build
BuildFails_clearing(found, msg) ==
    /\ call' = Update(found, [raised |-> msg, saved |-> FALSE])
    /\ vectorstore' = NoIndex
    /\ disk' = Unreadable

\* from_documents raises: the assignment of self.vectorstore and the call of
\* save_vectorstore are not reached
BuildFails(found, msg) ==
    /\ call' = Update(found, [raised |-> msg, saved |-> FALSE])
    /\ UNCHANGED <<vectorstore, disk>>

\* create_vectorstore(chunks): the index is assigned when from_documents has
\* returned it, and save_vectorstore comes after that
CreateVectorstore ==
    /\ pc = "idle"
    /\ \E cs \in ChunkLists :
        LET documents == ToDocuments(cs)
            found == [op |-> "create_vectorstore", chunks |-> cs,
                      vectorstore |-> vectorstore, disk |-> disk]
        IN  \/ /\ documents = <<>>
               /\ BuildFails(found, EmptyBuildError)
            \/ /\ documents # <<>>
               /\ \E msg \in EmbedErrors : BuildFails(found, msg)
            \/ /\ documents # <<>>
               /\ vectorstore' = FromDocuments(documents)
               /\ \/ /\ disk' = Persisted(FromDocuments(documents))
                     /\ call' = Update(found, [raised |-> "", saved |-> TRUE])
                  \/ /\ disk' \in {disk, Unreadable}
                     /\ \E msg \in SaveErrors :
                            call' = Update(found, [raised |-> msg, saved |-> TRUE])
    /\ NotInQuery
    /\ UNCHANGED chunkVars

\* load_vectorstore(): whatever load_local raises is caught and printed
CallLoad ==
    /\ pc = "idle"
    /\ vectorstore' = LoadVectorstore(vectorstore, disk)
    /\ call' = [op |-> "load_vectorstore", vectorstore |-> vectorstore, disk |-> disk,
                raised |-> ""]
    /\ UNCHANGED disk
    /\ NotInQuery
    /\ UNCHANGED chunkVars

\* search(query, k): loads when the index is unset, then searches what is there
CallSearch ==
    /\ pc = "idle"
    /\ \E q \in Questions, k \in SearchSizes :
        LET found == [op |-> "search", query |-> q, k |-> k,
                      vectorstore |-> vectorstore, disk |-> disk]
            index == IF vectorstore = NoIndex
                     THEN LoadVectorstore(vectorstore, disk) ELSE vectorstore
        IN  /\ vectorstore' = index
            /\ IF index = NoIndex
               THEN call' = Update(found, [raised |-> UnsetIndexError, returned |-> <<>>])
               ELSE \E ds \in SimilaritySearch(index, k) :
                        call' = Update(found, [raised |-> "", returned |-> ds])
    /\ UNCHANGED disk
    /\ NotInQuery
    /\ UNCHANGED chunkVars

\* a manager just constructed, on a directory in any of its states
InitStore ==
    /\ NoProcessing
    /\ vectorstore = NoIndex
    /\ disk \in DiskPool
    /\ images_catalog = <<>>
    /\ files = {}
    /\ pc = "idle"
    /\ Locals

NextStore ==
    \/ CreateVectorstore
    \/ CallLoad
    \/ CallSearch

SpecStore == InitStore /\ [][NextStore]_vars

(***************************************************************************)
(* One manager over its lifetime: builds, loads and searches between the   *)
(* queries of the pipelines.                                               *)
(***************************************************************************)
NextLife ==
    \/ Next
    \/ NextStore

SpecLife == Init /\ [][NextLife]_vars

(***************************************************************************)
(* A rebuild by another manager on the same vectorstore directory (the     *)
(* build script next to the running application), step by step, while the  *)
(* queries run.  save_local writes the index file and then the docstore    *)
(* file in place: between the two the directory is neither the previous    *)
(* index nor the new one.  Nothing in create_vectorstore, save_vectorstore *)
(* or load_vectorstore locks the directory or writes aside and renames.    *)
(***************************************************************************)
\* the directory while save_local is writing: what was there, what is coming
Writing(previous, incoming) ==
    [state |-> "partial", index |-> previous, incoming |-> incoming]

\* what load_local makes of the new index file with the previous docstore file
Torn(previous, incoming) ==
    IF previous = incoming THEN incoming
    ELSE [docs |-> previous.docs, vectors |-> incoming.docs]

IsTorn(index) == "vectors" \in DOMAIN index

\* str(e) of the lookup of a vector's position in a docstore that lacks it
TornIndexError == "Could not find document for id"

\* create_vectorstore of the other manager has built its index and
\* save_local starts to write
BeginRebuild ==
    /\ disk.state # "partial"
    /\ \E cs \in ChunkLists :
        /\ ToDocuments(cs) # <<>>
        /\ disk' = Writing(disk.index, FromDocuments(ToDocuments(cs)))
    /\ UNCHANGED <<call, parked, vectorstore>>
    /\ NotInQuery
    /\ UNCHANGED chunkVars

\* save_local has written the last file
EndRebuild ==
    /\ disk.state = "partial"
    /\ disk' = Persisted(disk.incoming)
    /\ UNCHANGED <<call, parked, vectorstore>>
    /\ NotInQuery
    /\ UNCHANGED chunkVars

\* the query's load_vectorstore during the write, when load_local does not
\* raise (LoadIndex is the load that raises): it returns the torn index
LoadTorn ==
    /\ pc = "load"
    /\ vectorstore = NoIndex
    /\ disk.state = "partial"
    /\ disk.index # NoIndex
    /\ vectorstore' = Torn(disk.index, disk.incoming)
    /\ loadCalls' = loadCalls + 1
    /\ pc' = "search"
    /\ UNCHANGED <<call, parked, disk, images_catalog, files, pipeline, question, return_sources,
                   include_images, docs, wants_diagrams, context, relevant_images,
                   image_analyses, imgIdx, full_prompt, answer, result, raised,
                   llmCalls, llmFault, visionCalls, checked>>
    /\ UNCHANGED chunkVars

\* similarity_search on a torn index, when a vector found has no document
\* (Search is the search whose vectors all have one)
SearchTorn ==
    /\ pc = "search"
    /\ IsTorn(vectorstore)
    /\ raised' = TornIndexError
    /\ pc' = "raised"
    /\ UNCHANGED <<call, parked, vectorstore, disk, images_catalog, files, pipeline, question,
                   return_sources, include_images, docs, wants_diagrams, context,
                   relevant_images, image_analyses, imgIdx, full_prompt, answer, result,
                   llmCalls, llmFault, visionCalls, loadCalls, checked>>
    /\ UNCHANGED chunkVars

NextRebuild ==
    \/ Next
    \/ BeginRebuild
    \/ EndRebuild
    \/ LoadTorn
    \/ SearchTorn

SpecRebuild == Init /\ [][NextRebuild]_vars

(***************************************************************************)
(* Properties.                                                             *)
(***************************************************************************)
Range(seq) == {seq[i] : i \in 1..Len(seq)}

\* the query has produced its outcome
Finished == pc \in {"done", "raised"}

\* C1: whenever retrieval returned zero chunks, the query ends with
\* confidence "none", no sources and one of the fixed "cannot find" answers,
\* no exception, and the text model was not invoked in that execution.
C1_ZeroResultShortCircuit ==
    (Finished /\ vectorstore # NoIndex /\ Len(docs) = 0) =>
        /\ raised = ""
        /\ llmCalls = 0
        /\ HasKey(result, "confidence") /\ result.confidence = "none"
        /\ result.sources = <<>>
        /\ Contains(result.answer, "I cannot find relevant information")
        /\ result.answer \in
             {"!! I cannot find relevant information in the loaded manuals. Please verify the question or check if the appropriate manual is loaded.",
              "!! I cannot find relevant information in the loaded manuals."}

C1_Witness ==
    /\ pc = "done"
    /\ pipeline = "multimodal"
    /\ vectorstore = FullIndex
    /\ Len(docs) = 0
    /\ question = "Where is the fuel DIAGRAM?"

\* C2 (as claimed): when the text model raises during query, no exception
\* reaches the caller and query returns a result with confidence "error",
\* no sources and the error message in its answer.
C2_GeneratorFaultContained ==
    (Finished /\ llmFault # "") =>
        /\ raised = ""
        /\ HasKey(result, "confidence") /\ result.confidence = "error"
        /\ result.sources = <<>>
        /\ Contains(result.answer, llmFault)

\* C3 (as claimed): when a query starts without an index in memory and the
\* load fails, the query ends with a fixed "no manuals available" result:
\* no exception reaches the caller and the unset index is not searched.
C3_IndexUnavailableFallback ==
    (Finished /\ loadCalls > 0 /\ vectorstore = NoIndex) =>
        /\ raised = ""
        /\ HasKey(result, "answer")
        /\ Len(docs) = 0
        /\ llmCalls = 0

C2_Witness == pc = "raised" /\ llmFault = "Read timed out" /\ pipeline = "plain"

C3_Witness ==
    /\ pc = "raised"
    /\ loadCalls = 1
    /\ vectorstore = NoIndex
    /\ disk.state = "unreadable"
    /\ raised = UnsetIndexError

\* the quality checker ran in this query: its arguments and what it returned
CheckerRan == checked # NotChecked /\ HasKey(result, "quality_check")

IssueRank(name) ==
    CASE name = "Missing citations" -> 1
      [] name = "Answer too brief" -> 2
      [] name = "No relevant sources found" -> 3
      [] OTHER -> 0

\* C4: the issues list holds "Missing citations" iff the answer has neither
\* "Source:" nor "Page:", "Answer too brief" iff the answer has fewer than 50
\* characters, "No relevant sources found" iff there are no sources; nothing
\* else, in that order; has_issues iff the list is not empty; "Short." with
\* no sources gives all three.
C4_QualityRules ==
    CheckerRan =>
        LET ans == checked.answer
            srcs == checked.sources
            qc == result.quality_check
            issues == qc.issues
        IN  /\ ("Missing citations" \in Range(issues))
                 <=> (~Contains(ans, "Source:") /\ ~Contains(ans, "Page:"))
            /\ ("Answer too brief" \in Range(issues)) <=> (Len(ans) < 50)
            /\ ("No relevant sources found" \in Range(issues)) <=> (srcs = <<>>)
            /\ \A i \in 1..Len(issues) : IssueRank(issues[i]) > 0
            /\ \A i, j \in 1..Len(issues) :
                   i < j => IssueRank(issues[i]) < IssueRank(issues[j])
            /\ qc.has_issues <=> (Len(issues) > 0)
            /\ (ans = "Short." /\ srcs = <<>>) =>
                   issues = <<"Missing citations", "Answer too brief",
                              "No relevant sources found">>

C4_Witness ==
    /\ CheckerRan
    /\ checked.answer = "Short."
    /\ checked.sources = <<>>
    /\ Len(result.quality_check.issues) = 3

\* C5: the checker's confidence is "high" exactly when there are no issues
\* and the lowered answer holds none of the four hedging phrases; otherwise
\* it is "low"; it is never anything else.
C5_ConfidenceDerivation ==
    CheckerRan =>
        LET qc == result.quality_check
            hedged == \E phrase \in {"cannot find", "not available", "unclear",
                                     "insufficient information"} :
                          Contains(Lower(checked.answer), phrase)
        IN  /\ qc.confidence \in {"high", "low"}
            /\ (qc.confidence = "high") <=> (qc.issues = <<>> /\ ~hedged)
            /\ qc.is_uncertain <=> hedged

\* no issue, but a hedging phrase in capitals: "low"
C5_Witness ==
    /\ CheckerRan
    /\ result.quality_check.issues = <<>>
    /\ Contains(checked.answer, "CANNOT FIND")
    /\ result.quality_check.confidence = "low"

\* C6 (as claimed): whenever the text model was invoked and returned, the
\* quality checker ran on that answer, and the result's quality_check and
\* confidence are the checker's.
C6_CheckingAlwaysRuns ==
    (Finished /\ llmCalls > 0 /\ llmFault = "") =>
        /\ checked # NotChecked
        /\ checked.answer = answer
        /\ HasKey(result, "quality_check")
        /\ result.confidence = result.quality_check.confidence

C6_Witness == pc = "done" /\ pipeline = "multimodal" /\ llmCalls = 1 /\ answer = "Short."

ConfidenceValues == {"none", "low", "medium", "high", "error"}

\* C7 (as claimed): every result query returns has the fields answer,
\* sources, images, confidence and quality_check, confidence being one of
\* none, low, medium, high, error and quality_check holding has_issues (a
\* boolean) and issues (a sequence of strings).
C7_ResultSchema ==
    (Finished /\ result # NoResult) =>
        /\ {"answer", "sources", "images", "confidence", "quality_check"}
               \subseteq DOMAIN result
        /\ result.confidence \in ConfidenceValues
        /\ {"has_issues", "issues"} \subseteq DOMAIN result.quality_check
        /\ result.quality_check.has_issues \in BOOLEAN

C7_Witness == pc = "done" /\ pipeline = "plain" /\ Len(docs) = 0 /\ result # NoResult

\* the label and text the claim gives for the i-th retrieved chunk
ClaimedBlock(i) ==
    LET md == docs[i].metadata
        src == IF "source" \in DOMAIN md THEN md.source ELSE "Unknown"
        page == IF "page" \in DOMAIN md THEN ToString(md.page) ELSE "N/A"
    IN  "[Source " \o ToString(i) \o ": " \o src \o ", Page " \o page \o "]" \o "\n"
            \o docs[i].page_content

\* where the i-th block starts when blocks are laid out one after the other
\* with the seven-character delimiter between them
ClaimedStart(i) ==
    LET start[k \in 1..Len(docs)] ==
            IF k = 1 THEN 1 ELSE start[k - 1] + Len(ClaimedBlock(k - 1)) + 7
    IN  start[i]

ClaimedTextLen == ClaimedStart(Len(docs)) + Len(ClaimedBlock(Len(docs))) - 1

\* the text context has been assembled in this query
TextAssembled == Len(docs) >= 1 /\ pc # "assemble"

\* the diagram section (if any) has been added as well
ContextComplete ==
    TextAssembled /\ (pipeline = "multimodal" => pc # "vision")

\* C8: for n >= 1 retrieved chunks the text context is exactly the n blocks
\* "[Source i: <source>, Page <page>]" + newline + the chunk's full text, in
\* retrieval order, consecutive blocks separated by "\n\n---\n\n", and nothing
\* else (the multimodal pipeline adds only after it).
C8_ContextAssembly ==
    TextAssembled =>
        /\ Len(context) >= ClaimedTextLen
        /\ (pipeline = "plain" \/ pc = "vision") => Len(context) = ClaimedTextLen
        /\ \A i \in 1..Len(docs) :
               SubSeq(context, ClaimedStart(i),
                      ClaimedStart(i) + Len(ClaimedBlock(i)) - 1) = ClaimedBlock(i)
        /\ \A i \in 1..(Len(docs) - 1) :
               SubSeq(context, ClaimedStart(i) + Len(ClaimedBlock(i)),
                      ClaimedStart(i + 1) - 1) = "\n\n---\n\n"

\* two chunks, the first without source and page, the second longer than the
\* display preview
C8_Witness ==
    /\ pc = "generate"
    /\ pipeline = "plain"
    /\ docs = <<DocBare, DocLong>>
    /\ Contains(context, "[Source 1: Unknown, Page N/A]\nWARNING: hot surface.\n\n---\n\n[Source 2: manual.pdf, Page 12]\nCheck")

\* the n-th entry of the diagram section as the claim gives it
ClaimedDiagramEntry(n) ==
    "[Diagram " \o ToString(n) \o ": " \o image_analyses[n].filename
        \o ", Page " \o image_analyses[n].page \o "]" \o "\n"
        \o image_analyses[n].analysis

\* where the n-th entry starts: after the text context and the header, each
\* entry closed by two newlines
ClaimedDiagramStart(n) ==
    LET start[k \in 1..Len(image_analyses)] ==
            IF k = 1 THEN ClaimedTextLen + 28 + 1
            ELSE start[k - 1] + Len(ClaimedDiagramEntry(k - 1)) + 2
    IN  start[n]

\* C9: in the multimodal pipeline the context carries a diagram section iff
\* there is at least one image analysis; the section follows all text blocks
\* and its n-th entry is "[Diagram n: <filename>, Page <page>]" + newline +
\* the n-th analysis.
C9_DiagramSection ==
    (ContextComplete /\ pipeline = "multimodal") =>
        /\ (image_analyses = <<>>) <=> (Len(context) = ClaimedTextLen)
        /\ image_analyses # <<>> =>
             /\ SubSeq(context, ClaimedTextLen + 1, ClaimedTextLen + 28)
                    = "\n\n--- DIAGRAM ANALYSIS ---\n\n"
             /\ \A n \in 1..Len(image_analyses) :
                    SubSeq(context, ClaimedDiagramStart(n),
                           ClaimedDiagramStart(n) + Len(ClaimedDiagramEntry(n)) - 1)
                        = ClaimedDiagramEntry(n)
             /\ Len(context) = ClaimedDiagramStart(Len(image_analyses))
                                 + Len(ClaimedDiagramEntry(Len(image_analyses))) + 1

C9_Witness ==
    /\ pc = "generate"
    /\ pipeline = "multimodal"
    /\ Len(docs) = 2
    /\ Len(image_analyses) = 2
    /\ Contains(context, "]\nCould not analyze image: Read timed out\n\n[Diagram 2: manual_p12_img0.png, Page 12]\nThe diagram")

\* C10: every chunk's has_warning is true iff its own text holds "warning"
\* in any case, and has_caution iff it holds "caution" in any case,
\* whatever the flags of its page.
C10_ChunkFlagsFromOwnText ==
    \A produced \in {chunks, all_chunks} :
        \A i \in 1..Len(produced) :
            LET c == produced[i]
            IN  /\ c.metadata.has_warning <=> Contains(Lower(c.text), "warning")
                /\ c.metadata.has_caution <=> Contains(Lower(c.text), "caution")

\* a chunk without the word on a page that has it, and one with the word in
\* small letters
C10_Witness ==
    /\ processor = "images"
    /\ \E i \in 1..Len(chunks) :
           /\ pages[chunks[i].metadata.page].metadata.has_warning
           /\ ~chunks[i].metadata.has_warning
    /\ \E j \in 1..Len(all_chunks) :
           /\ all_chunks[j].text = "B737 landing gear warning lamp."
           /\ all_chunks[j].metadata.has_warning
           /\ ~all_chunks[j].metadata.has_caution

\* C11: every chunk has the source and page of its page; each field the
\* extraction on the chunk's own text gives a value for has that value;
\* ata_chapter and aircraft_type keep the page's value when the extraction on
\* the chunk's text gives none; every other field of the page is kept.
ChunkLevel(c) == ExtractMetadata(c.text, "<chunk-level>", processor)
C11_ChunkMetadataMerge ==
    \A i \in 1..Len(chunks) :
        LET c == chunks[i]
            p == pages[c.metadata.page].metadata
            own == ChunkLevel(c)
        IN  /\ c.metadata.source = p.source
            /\ c.metadata.page = p.page
            /\ \A k \in {"has_warning", "has_caution", "is_procedure"} :
                   c.metadata[k] = own[k]
            /\ processor = "images" =>
                   /\ c.metadata.has_diagram = own.has_diagram
                   /\ c.metadata.num_images = p.num_images
            /\ \A k \in {"ata_chapter", "aircraft_type"} :
                   c.metadata[k] = IF own[k] = "<None>" THEN p[k] ELSE own[k]
C11_Witness ==
    /\ \E i \in 1..Len(chunks) :
           /\ chunks[i].text = "WARNING: hot surface near the APU."
           /\ chunks[i].metadata.aircraft_type = "A320"
           /\ chunks[i].metadata.ata_chapter = "32"
           /\ chunks[i].metadata.source = "manual.pdf"
           /\ ~chunks[i].metadata.is_procedure
           /\ pages[1].metadata.is_procedure
    /\ \E j \in 1..Len(chunks) :
           /\ chunks[j].metadata.page = 1
           /\ chunks[j].metadata.ata_chapter = "32-41-00"
           /\ pages[1].metadata.ata_chapter = "32"

\* C12: the chunks of a PDF come page by page in page order; on each page
\* there is one chunk per segment, in segment order, numbered 0, 1, ...
\* from 0 again on every page; an empty page gives no chunk.
ChunksOfPage(n) ==
    LET OnPage(c) == c.metadata.page = n
    IN  SelectSeq(chunks, OnPage)
C12_ChunkIndexAssignment ==
    /\ \A i \in 1..Len(chunks) : chunks[i].metadata.page \in 1..(pageIdx - 1)
    /\ \A i \in 1..(Len(chunks) - 1) :
           chunks[i].metadata.page <= chunks[i + 1].metadata.page
    /\ \A n \in 1..(pageIdx - 1) :
           LET cs == ChunksOfPage(n)
           IN  /\ \A i \in 1..Len(cs) : cs[i].metadata.chunk_index = i - 1
               /\ IF pages[n].text = "" THEN cs = <<>>
                  ELSE /\ Len(cs) >= 1
                       /\ Join([i \in 1..Len(cs) |-> cs[i].text], "\n") = pages[n].text
C12_Witness ==
    /\ \E i, j \in 1..Len(all_chunks) :
           /\ all_chunks[i].metadata.source = "manual.pdf"
           /\ all_chunks[j].metadata.source = "manual.pdf"
           /\ all_chunks[i].metadata.page = 1
           /\ all_chunks[i].metadata.chunk_index = 2
           /\ all_chunks[i].text = "STEP 1 open panel 32-41-00."
           /\ all_chunks[j].metadata.page = 2
           /\ all_chunks[j].metadata.chunk_index = 0
           /\ j = i + 1
    /\ Len(pages) = 2
    /\ pages[2].text = ""
    /\ pageIdx = 3
    /\ Len(chunks) = 2
    /\ chunks[2].metadata.chunk_index = 1

\* C13: no two chunks of a run have the same source, page and chunk_index.
ChunkKey(c) == <<c.metadata.source, c.metadata.page, c.metadata.chunk_index>>
C13_ChunkIdentity ==
    \A produced \in {chunks, all_chunks} :
        \A i, j \in 1..Len(produced) :
            i # j => ChunkKey(produced[i]) # ChunkKey(produced[j])
C13_Witness ==
    /\ cpc = "saved"
    /\ Len(all_chunks) >= 4
    /\ \E i, j \in 1..Len(all_chunks) :
           /\ all_chunks[i].metadata.source # all_chunks[j].metadata.source
           /\ all_chunks[i].metadata.page = all_chunks[j].metadata.page
           /\ all_chunks[i].metadata.chunk_index = all_chunks[j].metadata.chunk_index
    /\ \E i, j \in 1..Len(all_chunks) :
           /\ all_chunks[i].metadata.source = all_chunks[j].metadata.source
           /\ all_chunks[i].metadata.page # all_chunks[j].metadata.page
           /\ all_chunks[i].metadata.chunk_index = all_chunks[j].metadata.chunk_index

\* C14: a chunk made with images has either no image or all the images of
\* its own page: all of them when the page has an image and the chunk's text
\* refers to a figure or its has_diagram flag is set, none otherwise.
RefersToFigure(text) ==
    \E i \in 1..Len(text) :
        \E word \in {"FIG", "FIGURE"} :
            LET after == i + Len(word)
            IN  /\ after <= Len(text)
                /\ Upper(SubSeq(text, i, after - 1)) = word
                /\ \/ SubSeq(text, after, after) \in Digits
                   \/ /\ SubSeq(text, after, after) \in Whitespace \cup {"."}
                      /\ after + 1 <= Len(text)
                      /\ SubSeq(text, after + 1, after + 1) \in Digits
C14_ImageAssociation ==
    processor = "images" =>
        \A i \in 1..Len(chunks) :
            LET c == chunks[i]
                page == pages[c.metadata.page]
            IN  IF page.images # <<>>
                       /\ (RefersToFigure(c.text) \/ c.metadata.has_diagram)
                THEN c.images = page.images
                ELSE c.images = <<>>
C14_Witness ==
    /\ processor = "images"
    /\ \E i, j \in 1..Len(chunks) :
           /\ chunks[i].text = "See Figure 3 for the layout."
           /\ chunks[i].images = <<ImgP2a, ImgP2b>>
           /\ chunks[j].text = "Caution is advised."
           /\ chunks[j].metadata.page = 2
           /\ chunks[j].images = <<>>
    /\ \E k \in 1..Len(all_chunks) :
           /\ all_chunks[k].metadata.source = "b737.pdf"
           /\ all_chunks[k].images = <<>>

\* C15: when load_vectorstore fails, because the directory holds no index or
\* an unreadable one, the in-memory index is what it was before the call:
\* unset if it was unset, and never a partly loaded index.  The same goes
\* for the load that search makes.
LoadFailed(d) == d.state \in {"missing", "unreadable"}
C15_FailedLoadLeavesIndex ==
    /\ (call.op = "load_vectorstore" /\ LoadFailed(call.disk)) =>
           vectorstore = call.vectorstore
    /\ (call.op = "search" /\ call.vectorstore = [unset |-> TRUE]
            /\ LoadFailed(call.disk)) =>
           vectorstore = [unset |-> TRUE]
C15_Witness ==
    /\ call.op = "load_vectorstore"
    /\ call.disk.state = "unreadable"
    /\ call.vectorstore = [unset |-> TRUE]
    /\ vectorstore = [unset |-> TRUE]

\* C16: search on a manager whose index is unset, as it is when neither a
\* build nor a load has been made, fails and returns no result.
C16_SearchBeforeInitialisation ==
    (call.op = "search" /\ call.vectorstore = [unset |-> TRUE]) =>
        /\ call.raised # ""
        /\ call.returned = <<>>
        /\ vectorstore = [unset |-> TRUE]
C16_Witness ==
    /\ call.op = "search"
    /\ call.vectorstore = [unset |-> TRUE]
    /\ call.disk.state = "index"
    /\ call.raised = ""
    /\ Len(call.returned) > 0
    /\ vectorstore = call.disk.index

\* C17: when create_vectorstore fails in the embedding or the construction
\* of the index, as it does for an empty chunk list, the persisted index and
\* the in-memory index are what they were before the call; the index is
\* saved only once it holds every chunk's document.
BuildFailure(c) == c.chunks = <<>> \/ c.raised \in {"list index out of range", "out of memory"}
C17_BuildFailurePreservesState ==
    call.op = "create_vectorstore" =>
        /\ BuildFailure(call) =>
               /\ call.raised # ""
               /\ ~call.saved
               /\ disk = call.disk
               /\ vectorstore = call.vectorstore
        /\ call.saved =>
               vectorstore.docs =
                   {[page_content |-> call.chunks[i].text,
                     metadata |-> call.chunks[i].metadata] : i \in 1..Len(call.chunks)}
        /\ disk # call.disk => call.saved
C17_Witness ==
    /\ call.op = "create_vectorstore"
    /\ Len(call.chunks) = 4
    /\ call.raised = "out of memory"
    /\ call.vectorstore = SmallIndex
    /\ call.disk = [state |-> "index", index |-> SmallIndex]
    /\ vectorstore = SmallIndex
    /\ disk = call.disk

\* C18: a query calls load exactly when the in-memory index is unset as it
\* reaches the load test, which is as the query found it; no step of a query
\* changes an index that is set, so every query after a build or a load that
\* succeeded searches that index and loads nothing; after a load that
\* failed the index is still unset and the next query loads again.
QueryStep == pc # "idle" \/ pc' # "idle"
C18_LazyLoadHeld ==
    [][/\ (pc = "idle" /\ pc' = "load") => (loadCalls' = 0 /\ vectorstore' = vectorstore)
       /\ (pc = "load" /\ pc' # "load") =>
              /\ loadCalls' = (IF vectorstore = [unset |-> TRUE] THEN 1 ELSE 0)
              /\ pc' = "search"
       /\ (QueryStep /\ pc # "load") => loadCalls' \in {loadCalls, 0}
       /\ (QueryStep /\ vectorstore # [unset |-> TRUE]) => vectorstore' = vectorstore
       /\ (pc = "search" /\ pc' \in {"assemble", "done"}) =>
              \A i \in 1..Len(docs') : docs'[i] \in vectorstore.docs
       /\ (pc = "search" /\ vectorstore = [unset |-> TRUE]) => pc' = "raised"]_vars
C18_Witness ==
    /\ pc = "assemble"
    /\ loadCalls = 0
    /\ disk.state = "missing"
    /\ vectorstore = SmallIndex
    /\ docs = <<DocApu>>

\* C19: the images found for a query are the catalog entries whose source
\* and page are those of a retrieved chunk, chunk by chunk in retrieval order
\* and within a chunk in catalog order: an entry that matches m chunks is
\* there m times, and one that matches none is not there.
SamePlace(img, doc) ==
    \A key \in {"source", "page"} :
        IF key \in DOMAIN img /\ key \in DOMAIN doc.metadata
        THEN img[key] = doc.metadata[key]
        ELSE key \notin DOMAIN img /\ key \notin DOMAIN doc.metadata
MatchingPairs ==
    {pr \in (1..Len(docs)) \X (1..Len(images_catalog)) :
        SamePlace(images_catalog[pr[2]], docs[pr[1]])}
PairsBefore(pr) ==
    {q \in MatchingPairs : q[1] < pr[1] \/ (q[1] = pr[1] /\ q[2] < pr[2])}
ImagesSearched ==
    /\ pipeline = "multimodal"
    /\ pc \in {"vision", "prompt", "generate", "done", "raised"}
    /\ Len(docs) > 0
    /\ include_images
    /\ wants_diagrams \/ \E i \in 1..Len(docs) :
           "has_diagram" \in DOMAIN docs[i].metadata /\ docs[i].metadata.has_diagram
C19_QueryTimeImageAssociation ==
    ImagesSearched =>
        /\ Len(relevant_images) = Cardinality(MatchingPairs)
        /\ \A pr \in MatchingPairs :
               relevant_images[Cardinality(PairsBefore(pr)) + 1] = images_catalog[pr[2]]
C19_Witness ==
    /\ ImagesSearched
    /\ docs = <<DocLong, DocApu>>
    /\ images_catalog = <<ImgFuel1, ImgApu, ImgOther, ImgFuel2>>
    /\ relevant_images = <<ImgApu, ImgApu>>

\* C20: in the multimodal query images are searched for and analysed only
\* when a chunk was retrieved, include_images is true, and the question has a
\* diagram keyword or a retrieved chunk has has_diagram true; otherwise no
\* image is found, the vision model is not invoked, and the result has no
\* image and no analysis.  The analyses are over before the text model is
\* invoked.
ResultList(key) == IF key \in DOMAIN result THEN result[key] ELSE <<>>
TriggerHolds ==
    /\ Len(docs) >= 1
    /\ include_images
    /\ \/ \E kw \in DiagramKeywords : Contains(Lower(question), kw)
       \/ \E i \in 1..Len(docs) :
              "has_diagram" \in DOMAIN docs[i].metadata /\ docs[i].metadata.has_diagram
C20_ImageTrigger ==
    pipeline = "multimodal" =>
        /\ ~TriggerHolds =>
               /\ relevant_images = <<>>
               /\ image_analyses = <<>>
               /\ visionCalls = 0
               /\ pc = "done" =>
                      ResultList("images") = <<>> /\ ResultList("image_analyses") = <<>>
        /\ (visionCalls > 0 \/ relevant_images # <<>> \/ image_analyses # <<>>) =>
               TriggerHolds
        /\ pc = "vision" => llmCalls = 0
        /\ llmCalls > 0 =>
               /\ pc \in {"done", "raised"}
               /\ imgIdx > Len(relevant_images) \/ imgIdx > 3
               /\ pc = "done" => result.image_analyses = image_analyses
C20_Witness ==
    /\ pipeline = "multimodal"
    /\ pc = "done"
    /\ ~include_images
    /\ question = "Where is the fuel DIAGRAM?"
    /\ docs = <<DocFigure>>
    /\ images_catalog # <<>>
    /\ llmCalls = 1
    /\ visionCalls = 0
    /\ result.images = <<>>
    /\ result.image_analyses = <<>>

\* C24: a multimodal query that reached answer generation returns confidence
\* "high" exactly when its sources are not empty and the question has no
\* diagram keyword or its images are not empty, and "medium" otherwise: never
\* "low", whatever the answer, and "medium" whenever return_sources is false.
AsksForDiagram == \E kw \in DiagramKeywords : Contains(Lower(question), kw)
C24_MultimodalConfidence ==
    (pipeline = "multimodal" /\ pc = "done" /\ llmCalls > 0) =>
        /\ result.confidence =
               (IF result.sources # <<>> /\ (~AsksForDiagram \/ result.images # <<>>)
                THEN "high" ELSE "medium")
        /\ ~return_sources => result.confidence = "medium"
C24_Witness ==
    /\ pipeline = "multimodal"
    /\ pc = "done"
    /\ answer = "Short."
    /\ question = "Where is the fuel DIAGRAM?"
    /\ return_sources
    /\ Len(result.sources) = 2
    /\ result.images = <<>>
    /\ result.confidence = "medium"

\* C25: a plain query with return_sources false that retrieved a chunk returns
\* no source, a quality check that reports "No relevant sources found", and
\* confidence "low", whatever the answer and the number of chunks.
C25_NoSourcesRequested ==
    (pipeline = "plain" /\ pc = "done" /\ Len(docs) >= 1 /\ ~return_sources) =>
        /\ result.sources = <<>>
        /\ \E i \in 1..Len(result.quality_check.issues) :
               result.quality_check.issues[i] = "No relevant sources found"
        /\ result.quality_check.has_issues
        /\ result.confidence = "low"
C25_Witness ==
    /\ pipeline = "plain"
    /\ pc = "done"
    /\ ~return_sources
    /\ Len(docs) = 2
    /\ answer = "The APU supplies ground electrical power. [Source: manual.pdf, Page: 12]"
    /\ result.quality_check.issues = <<"No relevant sources found">>
    /\ result.confidence = "low"

\* C26: in a multimodal query the analyses are those of the images, among the
\* first three relevant ones, whose path is set and exists, in that order: at
\* most three, with at most three invocations of the vision model; the
\* returned images are all the relevant images, analysed or not, with or
\* without their file.
FirstThree == SubSeq(relevant_images, 1, IF Len(relevant_images) < 3 THEN Len(relevant_images) ELSE 3)
OnDisk(img) == "path" \in DOMAIN img /\ img.path # "" /\ img.path \in files
AnalysesDone == pipeline = "multimodal" /\ pc \in {"prompt", "generate", "done", "raised"}
C26_VisionAnalysisBound ==
    pipeline = "multimodal" =>
        /\ Len(image_analyses) <= 3
        /\ visionCalls <= 3
        /\ visionCalls <= Len(image_analyses)
        /\ AnalysesDone =>
               LET analysed == SelectSeq(FirstThree, OnDisk)
               IN  /\ Len(image_analyses) = Len(analysed)
                   /\ \A i \in 1..Len(analysed) :
                          /\ image_analyses[i].filename = analysed[i].filename
                          /\ image_analyses[i].page = ToString(analysed[i].page)
        /\ (pc = "done" /\ llmCalls > 0) =>
               /\ Len(result.images) = Len(relevant_images)
               /\ \A i \in 1..Len(relevant_images) :
                      /\ result.images[i].path = relevant_images[i].path
                      /\ result.images[i].filename = relevant_images[i].filename
               /\ result.image_analyses = image_analyses
C26_Witness ==
    /\ pipeline = "multimodal"
    /\ pc = "done"
    /\ relevant_images = <<ImgFuel1, ImgFuel2, ImgApu, ImgApu2>>
    /\ ImgFuel1.path \notin files
    /\ ImgApu2.path \in files
    /\ Len(image_analyses) = 2
    /\ image_analyses[1].filename = ImgFuel2.filename
    /\ image_analyses[2].filename = ImgApu.filename
    /\ Len(result.images) = 4

\* C27: the analysis of an image never raises: when reading the file or the
\* vision model fails, the text recorded for the image starts with "Could not
\* analyze image:", it is part of the context and of the prompt, and the
\* query goes on to the text model.
FailedAnalysis(text) ==
    Len(text) >= 24 /\ SubSeq(text, 1, 24) = "Could not analyze image:"
\* the closing part of the prompt, after the context
PromptTail ==
    "\n\nQuestion: " \o question \o "\n\n"
        \o (IF pipeline = "plain" THEN "Answer with citations:"
            ELSE "Answer with citations (include diagram references if relevant):")
\* the prompt holds the context, whole, right before its closing part
ContextInPrompt ==
    LET last == Len(full_prompt) - Len(PromptTail)
    IN  /\ last >= Len(context)
        /\ SubSeq(full_prompt, last - Len(context) + 1, last) = context
\* the text of the i-th analysis closes the i-th entry of the diagram section
AnalysisInContext(i) ==
    LET text == image_analyses[i].analysis
        last == ClaimedDiagramStart(i) + Len(ClaimedDiagramEntry(i)) - 1
    IN  /\ last <= Len(context)
        /\ SubSeq(context, last - Len(text) + 1, last) = text
C27_VisionFaultContained ==
    pipeline = "multimodal" =>
        /\ \A i \in 1..Len(image_analyses) :
               LET text == image_analyses[i].analysis
               IN  /\ FailedAnalysis(text) \/ text \in VisionResponses
                   /\ pc \in {"prompt", "generate", "done", "raised"} =>
                          AnalysisInContext(i)
        /\ (pc \in {"generate", "done", "raised"} /\ image_analyses # <<>>) =>
               ContextInPrompt
        /\ visionCalls < Len(image_analyses) =>
               \E i \in 1..Len(image_analyses) : FailedAnalysis(image_analyses[i].analysis)
        /\ pc = "vision" => raised = ""
        /\ (pc = "raised" /\ image_analyses # <<>>) => (llmCalls = 1 /\ raised = llmFault)
        /\ (pc = "done" /\ image_analyses # <<>>) => llmCalls = 1
C27_Witness ==
    /\ pipeline = "multimodal"
    /\ pc = "done"
    /\ llmCalls = 1
    /\ Len(image_analyses) = 2
    /\ image_analyses[1].analysis = "Could not analyze image: Permission denied"
    /\ image_analyses[2].analysis = "Could not analyze image: Read timed out"
    /\ visionCalls = 1
    /\ Contains(full_prompt, "Could not analyze image: Read timed out")
    /\ result.image_analyses = image_analyses

\* C29: the aircraft type of a text is the leftmost match of the Airbus
\* pattern if that pattern matches somewhere, else the leftmost match of the
\* Boeing pattern if that one matches somewhere, else None; wherever "B" and
\* three digits stand the Boeing pattern matches on the digits, so the B-code
\* pattern never gives the value.  It holds of every extracted page and of
\* every chunk whose own text has a match.
AirbusEnds(t) == [i \in 1..Len(t) |-> AirbusEnd(t, i)]
BoeingEnds(t) == [i \in 1..Len(t) |-> BoeingEnd(t, i)]
BCodeEnds(t) == [i \in 1..Len(t) |-> BCodeEnd(t, i)]
MatchesSomewhere(ends) == \E i \in DOMAIN ends : ends[i] > 0
IsFirstMatch(t, ends, v) ==
    \E i \in DOMAIN ends :
        /\ ends[i] > 0
        /\ \A j \in 1..(i - 1) : ends[j] = 0
        /\ v = SubSeq(t, i, ends[i])
PatternPriority(t, v) ==
    /\ MatchesSomewhere(AirbusEnds(t)) => IsFirstMatch(t, AirbusEnds(t), v)
    /\ (~MatchesSomewhere(AirbusEnds(t)) /\ MatchesSomewhere(BoeingEnds(t))) =>
           IsFirstMatch(t, BoeingEnds(t), v)
    /\ (~MatchesSomewhere(AirbusEnds(t)) /\ ~MatchesSomewhere(BoeingEnds(t))) =>
           v = "<None>"
    /\ \A i \in 1..Len(t) : BCodeEnds(t)[i] > 0 => BoeingEnds(t)[i + 1] = i + 3
    /\ (~MatchesSomewhere(AirbusEnds(t)) /\ MatchesSomewhere(BCodeEnds(t))) =>
           ~IsFirstMatch(t, BCodeEnds(t), v)
C29_AircraftTypePriority ==
    /\ \A n \in 1..Len(pages) :
           PatternPriority(pages[n].text, pages[n].metadata.aircraft_type)
    /\ \A i \in 1..Len(chunks) :
           (MatchesSomewhere(AirbusEnds(chunks[i].text))
                \/ MatchesSomewhere(BoeingEnds(chunks[i].text))) =>
               PatternPriority(chunks[i].text, chunks[i].metadata.aircraft_type)
C29_Witness ==
    /\ Len(pages) >= 1
    /\ pages[1].metadata.aircraft_type = "Boeing 737-800"
    /\ \E i \in 1..Len(chunks) :
           /\ chunks[i].text = "B737 landing gear warning lamp."
           /\ chunks[i].metadata.aircraft_type = "737"
    /\ \E i \in 1..Len(chunks) :
           /\ chunks[i].text = "Boeing 737-800 fuel pump."
           /\ chunks[i].metadata.aircraft_type = "Boeing 737-800"

\* C28: a query that retrieves a chunk goes through retrieval, context
\* assembly, answer generation and result construction in that order, never
\* back; the text model is invoked once, when the prompt holds the assembled
\* context and the question; and a query under way ends with a result or an
\* error.
Stage ==
    [idle |-> 0, load |-> 1, search |-> 2, assemble |-> 3, vision |-> 3,
     prompt |-> 3, generate |-> 4, done |-> 5, raised |-> 5]
QuestionInPrompt ==
    LET last == Len(full_prompt) - Len(PromptTail)
    IN  /\ last >= 0
        /\ SubSeq(full_prompt, last + 1, Len(full_prompt)) = PromptTail
StageStep ==
    /\ pc' # "idle" => Stage[pc'] >= Stage[pc]
    /\ pc' = "idle" => pc \in {"done", "raised"}
    /\ (pc = "search" /\ docs' # <<>>) => pc' = "assemble"
    /\ pc = "assemble" => (pc' \in {"vision", "prompt"} /\ context' = BuildContext(docs))
    /\ (pc \in {"vision", "prompt"} /\ pc' # pc) => Stage[pc'] = Stage[pc] \/ pc' = "generate"
    /\ pc = "generate" =>
           /\ pc' \in {"done", "raised"}
           /\ llmCalls' = 1
           /\ full_prompt' = full_prompt
           /\ pc' = "done" => result'.answer = answer'
    /\ pc # "generate" => (llmCalls' = llmCalls \/ pc' = "idle")
StagesInOrder ==
    /\ Stage[pc] \in 1..3 => llmCalls = 0
    /\ pc = "generate" => (llmCalls = 0 /\ ContextInPrompt /\ QuestionInPrompt)
    /\ (Stage[pc] = 5 /\ docs # <<>>) => llmCalls = 1
C28_StageOrderAndTermination ==
    /\ [][StageStep]_vars
    /\ []StagesInOrder
    /\ (pc \in {"load", "search", "assemble", "vision", "prompt", "generate"})
           ~> (pc \in {"done", "raised"})
C28_Witness ==
    /\ pc = "done"
    /\ pipeline = "plain"
    /\ Len(docs) = 2
    /\ llmCalls = 1
    /\ ContextInPrompt
    /\ QuestionInPrompt
    /\ result.answer = answer
    /\ result.confidence = "high"

\* C23: when the wrapped function returns, handle_query_errors returns that
\* very value; when it raises, the wrapper returns (nothing is raised to its
\* caller) a result of exactly the fields answer, sources, confidence and
\* error, with confidence "error", no sources, the exception's message in
\* the answer, and error equal to the message.
C23_ErrorWrapper ==
    call.op = "handle_query_errors" =>
        /\ pc = "idle" /\ raised = ""
        /\ call.outcome = "done" => call.returned = call.value
        /\ call.outcome = "raised" =>
               /\ DOMAIN call.returned = {"answer", "sources", "confidence", "error"}
               /\ call.returned.confidence = "error"
               /\ call.returned.sources = <<>>
               /\ call.returned.error = call.exception
               /\ Contains(call.returned.answer, call.exception)
C23_Witness ==
    /\ call.op = "handle_query_errors"
    /\ call.outcome = "raised"
    /\ call.exception = "Connection refused"
    /\ call.returned.error = "Connection refused"
    /\ call.returned.confidence = "error"
    /\ call.returned.answer =
           "!! Error processing query: Connection refused. Please try rephrasing your question or contact support."

\* C21: a query's load made while a rebuild is writing the directory gives
\* the manager the complete previous index (none, when there was none) or
\* the complete new one.
LoadsDuringRebuild ==
    /\ pc = "load" /\ pc' = "search"
    /\ vectorstore = [unset |-> TRUE]
    /\ disk.state = "partial"
C21_RebuildVersusLoad ==
    [][LoadsDuringRebuild => vectorstore' \in {disk.index, disk.incoming}]_vars
C21_Witness ==
    /\ pc = "search"
    /\ loadCalls = 1
    /\ disk.state = "partial"
    /\ disk.index = [docs |-> {DocApu}]
    /\ disk.incoming = [docs |-> DocPool]
    /\ vectorstore = [docs |-> {DocApu}, vectors |-> DocPool]

\* C22: with the index loaded, no step of two interleaved queries changes
\* the index in memory or the persisted one; the locals of the query that is
\* not running change only by being handed over whole; and each query, the
\* running one and the parked one, has the documents, context, prompt and
\* result that its own question and its own retrieval give it alone.
SharedUntouched ==
    vectorstore # [unset |-> TRUE] => (vectorstore' = vectorstore /\ disk' = disk)
ParkedUntouched ==
    parked' # parked => (parked' = Running /\ Running' = parked)
ContextAlone(q) ==
    IF q.pipeline = "multimodal" /\ q.pc # "vision"
    THEN WithDiagrams(BuildContext(q.docs), q.image_analyses)
    ELSE BuildContext(q.docs)
ResultAlone(q) ==
    LET srcs == FormatSources(q.docs, q.return_sources, q.pipeline)
    IN  IF q.docs = <<>> THEN ZeroResult(q.pipeline)
        ELSE IF q.pipeline = "plain"
        THEN PlainResult(q.answer, srcs, CheckAnswerQuality(q.answer, srcs))
        ELSE MultimodalResult(q.answer, srcs, ImageResults(q.relevant_images),
                              q.image_analyses, q.wants_diagrams)
AsIfAlone(q) ==
    /\ q.pc \in {"assemble", "vision", "prompt", "generate", "done"} =>
           /\ \A i \in 1..Len(q.docs) : q.docs[i] \in vectorstore.docs
    /\ q.pc \in {"vision", "prompt", "generate"} => q.context = ContextAlone(q)
    /\ q.pc = "generate" =>
           q.full_prompt = FullPrompt(q.pipeline, q.context, q.question)
    /\ (q.pc = "done" /\ q.docs # <<>>) =>
           /\ q.context = ContextAlone(q)
           /\ q.full_prompt = FullPrompt(q.pipeline, q.context, q.question)
           /\ q.llmCalls = 1
    /\ q.pc = "done" => q.result = ResultAlone(q)
C22_ReadOnlyQueries ==
    /\ [][SharedUntouched /\ ParkedUntouched]_vars
    /\ [](AsIfAlone(Running) /\ AsIfAlone(parked))
C22_Witness ==
    /\ vectorstore = [docs |-> {DocApu}]
    /\ pc = "done" /\ parked.pc = "done"
    /\ pipeline = "plain" /\ parked.pipeline = "multimodal"
    /\ question # parked.question
    /\ Len(docs) = 1 /\ Len(parked.docs) = 1
    /\ Len(parked.image_analyses) = 1
    /\ answer # parked.answer
    /\ result.answer = answer
    /\ parked.result.answer = parked.answer
====
